---- MODULE Spec2Model ----
(***************************************************************************)
(* A model of the frame-selection, detection-fusion and hazard-            *)
(* classification pipeline of scripts/analyze_frames_openrouter.py.        *)
(*                                                                         *)
(* Numbers.  Python floats are modelled by exact scaled integers:          *)
(*   - confidences are in hundredths           (0.20 is 20),               *)
(*   - box coordinates are in thousandths      (0.1 is 100),               *)
(*   - areas are in millionths                 (0.05 is 50000).            *)
(* Input boxes have even w and h, so that x + w/2 is exact.                *)
(*                                                                         *)
(* Strings.  Class names and keywords are sequences of one-character       *)
(* strings, so that Python's `keyword in class_name.lower()` is a real     *)
(* substring test and not a table lookup.                                  *)
(***************************************************************************)
EXTENDS Integers, Sequences, FiniteSets, TLC

VARIABLES
    \* ---- filter_unique_frames (post-extraction sampler) ----
    sPc,          \* "off" | "call" | "loop" | "done"
    sFrames,      \* len(frame_files); the files are named by their 0-based place
    sI,           \* the loop index i of enumerate(frame_files[1:], 1)
    sUnique,      \* unique_frames
    sLast,        \* last_selected_index
    sPath,        \* "empty" | "primary" | "fallback": which return produced sResult
    sResult,      \* the returned list
    sPrev,        \* environment: the verdict given to the previous candidate
    sFlips,       \* environment: how often the verdict changed so far
    sCompared,    \* the retained frames the latest candidate was compared with
    sFailed,      \* history: some comparison so far failed inside the scorer
    \* ---- remove_duplicate_detections ----
    dPc,          \* "off" | "call" | "done"
    dInput,       \* detections
    dOutput,      \* unique_detections as returned
    \* ---- is_critical_safety_hazard ----
    hPc,          \* "off" | "call" | "done"
    hClass, hConf, hBox, hBase,
    hHazard,      \* the returned boolean
    \* ---- generate_mitigation_strategies ----
    mPc,          \* "off" | "call" | "done"
    mObjects,     \* detected_objects
    mFlags,       \* ai_analysis: [incorrectParking, wasteMaterial]
    mOut,         \* the returned list, each record by its "type"
    \* ---- analyze_frames_with_openrouter and the files it shares ----
    cacheStore,   \* identity -> content of <dataset_dir>/analysis.json
    metaStore,    \* identity -> content of <dataset_dir>/metadata.json
    indexStore,   \* identity -> entry of <dataset_root>/index.json
    framesDir,    \* number of frame_*.jpg files in frames_dir
    hasYolo,      \* HAS_YOLO
    run,          \* per run: the locals of analyze_frames_with_openrouter, and
                  \* after its return the value returned and what it did
    svcCalls,     \* per run: the calls made to the annotation service, in order
    \* ---- convert_grid_cells_to_bounding_box ----
    gPc,          \* "off" | "call" | "done"
    gInput,       \* grid_cells_string
    gTokens,      \* the tokens gInput was written from, by their place in GridTokens
    gSeps,        \* the separators gInput was written with
    gOutput,      \* the returned box
    \* ---- calculate_image_similarity, calculate_frame_similarity ----
    kPc,          \* "off" | "call" | "done"
    kCall,        \* the scorer called, its arguments and what its methods do
    kVerdict,     \* the returned boolean
    \* ---- extract_frames_with_opencv ----
    ePc,          \* "off" | "open" | "loop" | "done" | "listed"
    eTime,        \* current_time, in seconds
    eFrameCount,  \* frame_count
    eSkipped,     \* skipped_frames
    eLastSaved,   \* last_saved_frame, by its time; NoFrame for None
    eFrames,      \* extracted_frames, which are also the files written
    eResult,      \* "" | "success" | "failure"
    eListed,      \* frame_files of the analyzer after the sort
    eLast,        \* history: the latest candidate and what became of it
    eRun,         \* history: the "similar" verdicts in a row so far
    eRejects,     \* history: the candidates not read, of poor quality or not written
    \* ---- assess_hazard_severity ----
    vPc,          \* "off" | "call" | "done"
    vClass, vConf, vBox,
    vOut          \* the returned dict

samplerVars == <<sPc, sFrames, sI, sUnique, sLast, sPath, sResult, sPrev, sFlips, sCompared, sFailed>>
dedupVars   == <<dPc, dInput, dOutput>>
hazardVars  == <<hPc, hClass, hConf, hBox, hBase, hHazard>>
mitVars     == <<mPc, mObjects, mFlags, mOut>>
runVars     == <<cacheStore, metaStore, indexStore, framesDir, hasYolo, run, svcCalls>>
gridVars    == <<gPc, gInput, gTokens, gSeps, gOutput>>
simVars     == <<kPc, kCall, kVerdict>>
extractVars == <<ePc, eTime, eFrameCount, eSkipped, eLastSaved, eFrames, eResult, eListed, eLast, eRun, eRejects>>
severityVars == <<vPc, vClass, vConf, vBox, vOut>>
vars        == <<samplerVars, dedupVars, hazardVars, mitVars, runVars, gridVars, simVars, extractVars, severityVars>>

\* each specification exercises one component and leaves the others alone
otherThanSampler    == <<dedupVars, hazardVars, mitVars, runVars, gridVars, simVars, extractVars, severityVars>>
otherThanDedup      == <<samplerVars, hazardVars, mitVars, runVars, gridVars, simVars, extractVars, severityVars>>
otherThanHazard     == <<samplerVars, dedupVars, mitVars, runVars, gridVars, simVars, extractVars, severityVars>>
otherThanMitigation == <<samplerVars, dedupVars, hazardVars, runVars, gridVars, simVars, extractVars, severityVars>>
otherThanGrid       == <<samplerVars, dedupVars, hazardVars, mitVars, runVars, simVars, extractVars, severityVars>>
otherThanSimilarity == <<samplerVars, dedupVars, hazardVars, mitVars, runVars, gridVars, extractVars, severityVars>>
otherThanExtract    == <<samplerVars, dedupVars, hazardVars, mitVars, runVars, gridVars, simVars, severityVars>>
otherThanSeverity   == <<samplerVars, dedupVars, hazardVars, mitVars, runVars, gridVars, simVars, extractVars>>
otherThanRun        == <<samplerVars, dedupVars, hazardVars, mitVars, gridVars, simVars, extractVars, severityVars>>

-----------------------------------------------------------------------------
(* Strings *)

UpperLetters ==
    <<"A","B","C","D","E","F","G","H","I","J","K","L","M",
      "N","O","P","Q","R","S","T","U","V","W","X","Y","Z">>
LowerLetters ==
    <<"a","b","c","d","e","f","g","h","i","j","k","l","m",
      "n","o","p","q","r","s","t","u","v","w","x","y","z">>

\* str.lower() on one character
LowerChar(c) ==
    IF \E k \in 1..Len(UpperLetters) : UpperLetters[k] = c
    THEN LowerLetters[CHOOSE k \in 1..Len(UpperLetters) : UpperLetters[k] = c]
    ELSE c

\* str.lower()
Lower(s) == [k \in 1..Len(s) |-> LowerChar(s[k])]

\* Python's `item in text` on strings
Contains(text, item) ==
    \E k \in 1..(Len(text) - Len(item) + 1) : SubSeq(text, k, k + Len(item) - 1) = item

\* any(item in text for item in items)
AnyIn(items, text) == \E k \in 1..Len(items) : Contains(text, items[k])

-----------------------------------------------------------------------------
(* Keyword tables, copied from the source *)

\* safety_categories["vehicle"]
CatVehicleItems ==
    << <<"c", "a", "r">>,
       <<"t", "r", "u", "c", "k">>,
       <<"b", "u", "s">>,
       <<"m", "o", "t", "o", "r", "c", "y", "c", "l", "e">>,
       <<"b", "i", "c", "y", "c", "l", "e">> >>

\* safety_categories["person"]
CatPersonItems ==
    << <<"p", "e", "r", "s", "o", "n">> >>

\* safety_categories["equipment"]
CatEquipmentItems ==
    << <<"c", "h", "a", "i", "r">>,
       <<"d", "e", "s", "k">>,
       <<"t", "a", "b", "l", "e">>,
       <<"l", "a", "p", "t", "o", "p">>,
       <<"m", "o", "n", "i", "t", "o", "r">>,
       <<"k", "e", "y", "b", "o", "a", "r", "d">> >>

\* safety_categories["container"]
CatContainerItems ==
    << <<"b", "o", "t", "t", "l", "e">>,
       <<"c", "u", "p">>,
       <<"b", "o", "w", "l">>,
       <<"b", "o", "x">>,
       <<"s", "u", "i", "t", "c", "a", "s", "e">>,
       <<"h", "a", "n", "d", "b", "a", "g">>,
       <<"b", "a", "c", "k", "p", "a", "c", "k">> >>

\* safety_categories["obstacles"]
CatObstacleItems ==
    << <<"b", "e", "n", "c", "h">>,
       <<"p", "o", "t", "t", "e", "d", " ", "p", "l", "a", "n", "t">>,
       <<"v", "a", "s", "e">>,
       <<"s", "p", "o", "r", "t", "s", " ", "b", "a", "l", "l">> >>

\* safety_categories["waste"]
CatWasteItems ==
    << <<"t", "r", "a", "s", "h">>,
       <<"r", "e", "c", "y", "c", "l", "i", "n", "g">>,
       <<"g", "a", "r", "b", "a", "g", "e">> >>

\* safety_categories["warning"]
CatWarningItems ==
    << <<"s", "t", "o", "p", " ", "s", "i", "g", "n">>,
       <<"t", "r", "a", "f", "f", "i", "c", " ", "l", "i", "g", "h", "t">>,
       <<"f", "i", "r", "e", " ", "h", "y", "d", "r", "a", "n", "t">> >>

\* safety_categories["structure"]
CatStructureItems ==
    << <<"d", "o", "o", "r">>,
       <<"w", "i", "n", "d", "o", "w">>,
       <<"w", "a", "l", "l">> >>

\* get_adaptive_confidence_threshold: critical safety objects
AdaptiveVehicleItems ==
    << <<"c", "a", "r">>,
       <<"t", "r", "u", "c", "k">>,
       <<"f", "o", "r", "k", "l", "i", "f", "t">>,
       <<"v", "e", "h", "i", "c", "l", "e">>,
       <<"b", "i", "c", "y", "c", "l", "e">> >>

\* get_adaptive_confidence_threshold: blocking furniture/equipment
AdaptiveBlockingItems ==
    << <<"t", "a", "b", "l", "e">>,
       <<"d", "e", "s", "k">>,
       <<"c", "a", "b", "i", "n", "e", "t">>,
       <<"l", "a", "d", "d", "e", "r">>,
       <<"c", "a", "r", "t">>,
       <<"b", "o", "x">>,
       <<"c", "o", "n", "t", "a", "i", "n", "e", "r">> >>

\* get_adaptive_confidence_threshold: smaller objects
AdaptiveSmallItems ==
    << <<"p", "e", "r", "s", "o", "n">>,
       <<"c", "h", "a", "i", "r">>,
       <<"b", "a", "g">>,
       <<"b", "o", "t", "t", "l", "e">>,
       <<"p", "h", "o", "n", "e">> >>

\* critical_hazards["vehicles"]
HazardVehicles ==
    << <<"c", "a", "r">>,
       <<"t", "r", "u", "c", "k">>,
       <<"b", "u", "s">>,
       <<"m", "o", "t", "o", "r", "c", "y", "c", "l", "e">>,
       <<"b", "i", "c", "y", "c", "l", "e">>,
       <<"m", "o", "t", "o", "r", "b", "i", "k", "e">> >>

\* critical_hazards["blocking_furniture"]
HazardBlockingFurniture ==
    << <<"t", "a", "b", "l", "e">>,
       <<"d", "e", "s", "k">>,
       <<"c", "a", "b", "i", "n", "e", "t">>,
       <<"s", "h", "e", "l", "f">>,
       <<"c", "o", "u", "c", "h">>,
       <<"w", "a", "r", "d", "r", "o", "b", "e">> >>

\* critical_hazards["large_containers"]
HazardLargeContainers ==
    << <<"b", "o", "x">>,
       <<"c", "o", "n", "t", "a", "i", "n", "e", "r">>,
       <<"b", "a", "r", "r", "e", "l">>,
       <<"b", "i", "n">>,
       <<"c", "r", "a", "t", "e">>,
       <<"p", "a", "l", "l", "e", "t">> >>

\* critical_hazards["equipment"]
HazardEquipment ==
    << <<"l", "a", "d", "d", "e", "r">>,
       <<"c", "a", "r", "t">>,
       <<"t", "r", "o", "l", "l", "e", "y">>,
       <<"m", "a", "c", "h", "i", "n", "e">>,
       <<"f", "o", "r", "k", "l", "i", "f", "t">> >>

\* assess_hazard_severity: vehicles are always critical
SeverityVehicleItems ==
    << <<"c", "a", "r">>,
       <<"t", "r", "u", "c", "k">>,
       <<"b", "u", "s">>,
       <<"m", "o", "t", "o", "r", "c", "y", "c", "l", "e">>,
       <<"b", "i", "c", "y", "c", "l", "e">> >>

\* generate_mitigation_strategies: vehicles bucket keywords
MitVehicleItems ==
    << <<"c", "a", "r">>,
       <<"t", "r", "u", "c", "k">>,
       <<"b", "u", "s">>,
       <<"m", "o", "t", "o", "r", "c", "y", "c", "l", "e">>,
       <<"b", "i", "c", "y", "c", "l", "e">> >>

\* generate_mitigation_strategies: people bucket keyword
MitPersonItems ==
    << <<"p", "e", "r", "s", "o", "n">> >>

\* generate_mitigation_strategies: furniture bucket keywords
MitFurnitureItems ==
    << <<"c", "h", "a", "i", "r">>,
       <<"t", "a", "b", "l", "e">>,
       <<"b", "e", "n", "c", "h">>,
       <<"d", "e", "s", "k">>,
       <<"c", "a", "b", "i", "n", "e", "t">> >>

\* generate_mitigation_strategies: personal_items bucket keywords
MitPersonalItems ==
    << <<"b", "a", "g">>,
       <<"s", "u", "i", "t", "c", "a", "s", "e">>,
       <<"b", "a", "c", "k", "p", "a", "c", "k">>,
       <<"l", "u", "g", "g", "a", "g", "e">> >>

\* generate_mitigation_strategies: containers bucket keywords
MitContainerItems ==
    << <<"b", "o", "x">>,
       <<"c", "o", "n", "t", "a", "i", "n", "e", "r">>,
       <<"b", "a", "r", "r", "e", "l">>,
       <<"b", "u", "c", "k", "e", "t">> >>

\* generate_mitigation_strategies: trip_hazards bucket keywords
MitTripItems ==
    << <<"b", "o", "t", "t", "l", "e">>,
       <<"c", "u", "p">>,
       <<"b", "a", "l", "l">>,
       <<"b", "o", "o", "k">>,
       <<"p", "h", "o", "n", "e">> >>

\* generate_mitigation_strategies: equipment bucket keywords
MitEquipmentItems ==
    << <<"m", "o", "n", "i", "t", "o", "r">>,
       <<"c", "o", "m", "p", "u", "t", "e", "r">>,
       <<"p", "r", "i", "n", "t", "e", "r">>,
       <<"m", "a", "c", "h", "i", "n", "e">> >>

\* ---- class names used as inputs ----
N_car == <<"c", "a", "r">>
N_Truck == <<"T", "r", "u", "c", "k">>
N_bus == <<"b", "u", "s">>
N_bicycle == <<"b", "i", "c", "y", "c", "l", "e">>
N_forklift == <<"f", "o", "r", "k", "l", "i", "f", "t">>
N_cart == <<"c", "a", "r", "t">>
N_dining_table == <<"d", "i", "n", "i", "n", "g", " ", "t", "a", "b", "l", "e">>
N_couch == <<"c", "o", "u", "c", "h">>
N_box == <<"b", "o", "x">>
N_barrel == <<"b", "a", "r", "r", "e", "l">>
N_ladder == <<"l", "a", "d", "d", "e", "r">>
N_machine == <<"m", "a", "c", "h", "i", "n", "e">>
N_chair == <<"c", "h", "a", "i", "r">>
N_person == <<"p", "e", "r", "s", "o", "n">>
N_backpack == <<"b", "a", "c", "k", "p", "a", "c", "k">>
N_bottle == <<"b", "o", "t", "t", "l", "e">>
N_monitor == <<"m", "o", "n", "i", "t", "o", "r">>
N_dog == <<"d", "o", "g">>

-----------------------------------------------------------------------------
(* Detection post-processing: categories, thresholds, hazard gate *)

\* the one-keyword tests `"person" in class_name.lower()`
PersonWord == CatPersonItems[1]

\* first matching category of the (ordered) safety_categories dict wins
classify_object_for_safety(class_name) ==
    LET class_lower == Lower(class_name) IN
    IF      AnyIn(CatVehicleItems, class_lower)   THEN "vehicle"
    ELSE IF AnyIn(CatPersonItems, class_lower)    THEN "person"
    ELSE IF AnyIn(CatEquipmentItems, class_lower) THEN "equipment"
    ELSE IF AnyIn(CatContainerItems, class_lower) THEN "container"
    ELSE IF AnyIn(CatObstacleItems, class_lower)  THEN "obstacles"
    ELSE IF AnyIn(CatWasteItems, class_lower)     THEN "waste"
    ELSE IF AnyIn(CatWarningItems, class_lower)   THEN "warning"
    ELSE IF AnyIn(CatStructureItems, class_lower) THEN "structure"
    ELSE "other"

\* thresholds in hundredths: 0.20, 0.25, 0.35, default 0.30
get_adaptive_confidence_threshold(class_name) ==
    LET class_lower == Lower(class_name) IN
    IF      AnyIn(AdaptiveVehicleItems, class_lower)  THEN 20
    ELSE IF AnyIn(AdaptiveBlockingItems, class_lower) THEN 25
    ELSE IF AnyIn(AdaptiveSmallItems, class_lower)    THEN 35
    ELSE 30

Max(a, b) == IF a >= b THEN a ELSE b
Min(a, b) == IF a <= b THEN a ELSE b

\* a plausible slip: the caller's floor is used alone, the class tier is lost
EffectiveThresholdBaseOnly(class_name, base_threshold) == base_threshold

\* effective_threshold = max(base_threshold, adaptive_threshold)
EffectiveThreshold(class_name, base_threshold) ==
    Max(base_threshold, get_adaptive_confidence_threshold(class_name))

\* the class matches one of the four critical_hazards groups
InCriticalCategory(class_lower) ==
    \/ AnyIn(HazardVehicles, class_lower)
    \/ AnyIn(HazardBlockingFurniture, class_lower)
    \/ AnyIn(HazardLargeContainers, class_lower)
    \/ AnyIn(HazardEquipment, class_lower)

CenterX(bbox) == bbox.x + bbox.w \div 2
CenterY(bbox) == bbox.y + bbox.h \div 2

\* 0.2 <= center_x <= 0.8 and 0.3 <= center_y <= 0.9
InPathway(bbox) ==
    /\ 200 <= CenterX(bbox) /\ CenterX(bbox) <= 800
    /\ 300 <= CenterY(bbox) /\ CenterY(bbox) <= 900

is_critical_safety_hazard(class_name, confidence, bbox_position, base_threshold) ==
    IF confidence < EffectiveThreshold(class_name, base_threshold)
    THEN FALSE
    ELSE InCriticalCategory(Lower(class_name)) /\ InPathway(bbox_position)

\* the default base_threshold of is_critical_safety_hazard, 0.20
DefaultBaseThreshold == 20

-----------------------------------------------------------------------------
(* remove_duplicate_detections *)

\* distance_threshold = 0.1, in thousandths
DistanceThreshold == 100

\* distance < distance_threshold, squared on both sides
CloserThan(b1, b2, threshold) ==
    LET dx == CenterX(b1) - CenterX(b2)
        dy == CenterY(b1) - CenterY(b2)
    IN  dx * dx + dy * dy < threshold * threshold

\* a plausible slip: the class comparison is dropped
IsDuplicateOfAnyClass(detection, existing) ==
    CloserThan(detection.bbox, existing.bbox, DistanceThreshold)

\* the two nested conditions of the inner loop
IsDuplicateOf(detection, existing) ==
    /\ detection.class_name = existing.class_name
    /\ CloserThan(detection.bbox, existing.bbox, DistanceThreshold)

\* the place where the inner loop breaks, 0 when it runs to the end
FirstDuplicate(unique_detections, detection) ==
    IF \E k \in 1..Len(unique_detections) : IsDuplicateOf(detection, unique_detections[k])
    THEN CHOOSE k \in 1..Len(unique_detections) :
            /\ IsDuplicateOf(detection, unique_detections[k])
            /\ \A j \in 1..(k - 1) : ~IsDuplicateOf(detection, unique_detections[j])
    ELSE 0

\* list.remove(value): drops the first element equal to value
ListRemove(list, value) ==
    LET k == CHOOSE i \in 1..Len(list) :
                 list[i] = value /\ \A j \in 1..(i - 1) : list[j] # value
    IN  SubSeq(list, 1, k - 1) \o SubSeq(list, k + 1, Len(list))

\* a plausible slip: the newcomer always takes the place of the one it is
\* close to
KeepsNewAlways(detection, existing) == TRUE

\* a plausible slip: the comparison is turned round, the weaker one survives
KeepsNewLower(detection, existing) == detection.confidence < existing.confidence

\* if detection['confidence'] > existing['confidence']
KeepsNew(detection, existing) == detection.confidence > existing.confidence

\* one iteration of the outer loop
DedupStep(unique_detections, detection) ==
    LET k == FirstDuplicate(unique_detections, detection) IN
    IF k = 0
    THEN Append(unique_detections, detection)
    ELSE IF KeepsNew(detection, unique_detections[k])
         THEN Append(ListRemove(unique_detections, unique_detections[k]), detection)
         ELSE unique_detections

RECURSIVE DedupLoop(_, _, _)
DedupLoop(detections, k, unique_detections) ==
    IF k > Len(detections)
    THEN unique_detections
    ELSE DedupLoop(detections, k + 1, DedupStep(unique_detections, detections[k]))

remove_duplicate_detections(detections) == DedupLoop(detections, 1, <<>>)

-----------------------------------------------------------------------------
(* generate_mitigation_strategies *)

\* the if/elif chain that files one hazard-flagged object into a bucket
BucketOf(obj) ==
    LET category   == obj.safety_category
        class_lower == Lower(obj.class_name)
    IN  IF      category = "vehicle" \/ AnyIn(MitVehicleItems, class_lower) THEN "vehicles"
        ELSE IF category = "person" \/ AnyIn(MitPersonItems, class_lower)   THEN "people"
        ELSE IF AnyIn(MitFurnitureItems, class_lower) THEN "furniture"
        ELSE IF AnyIn(MitPersonalItems, class_lower)  THEN "personal_items"
        ELSE IF AnyIn(MitContainerItems, class_lower) THEN "containers"
        ELSE IF AnyIn(MitTripItems, class_lower)      THEN "trip_hazards"
        ELSE IF AnyIn(MitEquipmentItems, class_lower) THEN "equipment"
        ELSE "other_hazards"

\* the keys of object_categories, in declaration order
BucketNames ==
    <<"vehicles", "furniture", "personal_items", "containers",
      "trip_hazards", "equipment", "people", "other_hazards">>

\* object_categories[bucket] after the categorisation loop
BucketMembers(detected_objects, bucket) ==
    LET Keep(obj) == obj.potential_hazard /\ BucketOf(obj) = bucket
    IN  SelectSeq(detected_objects, Keep)

\* one appended record; count is the number the description reports
MitigationRecord(type, severity, urgency, count) ==
    [type |-> type, severity |-> severity, urgency |-> urgency, count |-> count]

\* `if object_categories[bucket]: mitigations.append({...})`
BucketRecord(detected_objects, bucket, type, severity, urgency) ==
    LET members == BucketMembers(detected_objects, bucket) IN
    IF Len(members) > 0
    THEN <<MitigationRecord(type, severity, urgency, Len(members))>>
    ELSE <<>>

\* not any(object_categories.values())
NoBucketFilled(detected_objects) ==
    \A k \in 1..Len(BucketNames) : Len(BucketMembers(detected_objects, BucketNames[k])) = 0

\* a plausible slip: the fallback looks at the flags only
FallbackWantedFlagsOnly(detected_objects, ai_analysis) ==
    ~ai_analysis.incorrectParking /\ ~ai_analysis.wasteMaterial

\* the condition of the closing "preventive_maintenance" block
FallbackWanted(detected_objects, ai_analysis) ==
    /\ NoBucketFilled(detected_objects)
    /\ ~ai_analysis.incorrectParking
    /\ ~ai_analysis.wasteMaterial

\* a plausible slip: the blocks in the order the buckets are declared
generate_mitigation_strategies_declared(detected_objects, ai_analysis) ==
       BucketRecord(detected_objects, "vehicles", "vehicle_parking_violation", "critical", "immediate")
    \o BucketRecord(detected_objects, "furniture", "furniture_obstruction", "high", "short-term")
    \o BucketRecord(detected_objects, "personal_items", "personal_belongings_management", "low", "short-term")
    \o BucketRecord(detected_objects, "containers", "container_storage_violation", "medium", "short-term")
    \o BucketRecord(detected_objects, "trip_hazards", "trip_hazard_elimination", "medium", "immediate")
    \o BucketRecord(detected_objects, "people", "personnel_safety_training", "medium", "short-term")
    \o (IF ai_analysis.incorrectParking
        THEN <<MitigationRecord("ai_detected_parking_violation", "critical", "immediate", 0)>>
        ELSE <<>>)
    \o (IF ai_analysis.wasteMaterial
        THEN <<MitigationRecord("ai_detected_waste_debris", "medium", "immediate", 0)>>
        ELSE <<>>)
    \o (IF FallbackWanted(detected_objects, ai_analysis)
        THEN <<MitigationRecord("preventive_maintenance", "low", "long-term", 0)>>
        ELSE <<>>)

\* the blocks in the order the function runs them; the equipment and
\* other_hazards buckets are filled but no block reads them
generate_mitigation_strategies(detected_objects, ai_analysis) ==
       BucketRecord(detected_objects, "vehicles", "vehicle_parking_violation", "critical", "immediate")
    \o BucketRecord(detected_objects, "furniture", "furniture_obstruction", "high", "short-term")
    \o BucketRecord(detected_objects, "containers", "container_storage_violation", "medium", "short-term")
    \o BucketRecord(detected_objects, "trip_hazards", "trip_hazard_elimination", "medium", "immediate")
    \o BucketRecord(detected_objects, "personal_items", "personal_belongings_management", "low", "short-term")
    \o BucketRecord(detected_objects, "people", "personnel_safety_training", "medium", "short-term")
    \o (IF ai_analysis.incorrectParking
        THEN <<MitigationRecord("ai_detected_parking_violation", "critical", "immediate", 0)>>
        ELSE <<>>)
    \o (IF ai_analysis.wasteMaterial
        THEN <<MitigationRecord("ai_detected_waste_debris", "medium", "immediate", 0)>>
        ELSE <<>>)
    \o (IF FallbackWanted(detected_objects, ai_analysis)
        THEN <<MitigationRecord("preventive_maintenance", "low", "long-term", 0)>>
        ELSE <<>>)

-----------------------------------------------------------------------------
(* filter_unique_frames *)

\* bounds of the sampler's inputs
MaxFrames == 31          \* the loop is followed for up to this many frames
MaxFlips == 2            \* changes of verdict from one candidate to the next
MaxFallbackFrames == 60  \* frame counts for which the call is followed at all

\* `if len(unique_frames) > 12` and the `[:12]` slices
MaxSampledFrames == 12
\* min_frame_gap = 1
MinFrameGap == 1
\* unique_frames[-3:]
RecentWindow == 3

\* frame_files: the sorted names, each stood for by its 0-based position
FrameFiles(n) == [k \in 1..n |-> k - 1]

\* list[::step]
Stride(list, step) ==
    [k \in 1..((Len(list) + step - 1) \div step) |-> list[(k - 1) * step + 1]]

\* list[:n]
Take(list, n) == SubSeq(list, 1, Min(n, Len(list)))

\* a plausible slip: the candidate is compared with every retained frame
RecentAll(list, n) == list

\* list[-n:] if len(list) > n else list
Recent(list, n) ==
    IF Len(list) > n THEN SubSeq(list, Len(list) - n + 1, Len(list)) ELSE list

\* a plausible slip: the additional sampling is forgotten
CapPrimaryNone(unique_frames) == unique_frames

\* the tail of the try block: the additional sampling and the two returns
CapPrimary(unique_frames) ==
    IF Len(unique_frames) > MaxSampledFrames
    THEN Take(Stride(unique_frames, Len(unique_frames) \div MaxSampledFrames), MaxSampledFrames)
    ELSE unique_frames

\* the step chosen in the except block for more than 5 frames
FallbackStep(total_frames) ==
    IF      total_frames <= 15 THEN 3
    ELSE IF total_frames <= 30 THEN 5
    ELSE Max(4, total_frames \div 12)

\* the except block
FallbackSample(frame_files) ==
    IF Len(frame_files) <= 5
    THEN frame_files
    ELSE Take(Stride(frame_files, FallbackStep(Len(frame_files))), MaxSampledFrames)

\* the verdict of the comparisons of one candidate: similar to some frame of
\* the window (the loop breaks there) or to none
Verdicts == {"similar", "unique"}

SamplerOff ==
    /\ sPc = "off" /\ sFrames = 0 /\ sI = 0 /\ sUnique = <<>> /\ sLast = 0
    /\ sPath = "none" /\ sResult = <<>> /\ sPrev = "none" /\ sFlips = 0
    /\ sCompared = <<>> /\ sFailed = FALSE

SamplerInit ==
    /\ sPc = "call"
    /\ sFrames \in 0..MaxFallbackFrames
    /\ sI = 0 /\ sUnique = <<>> /\ sLast = 0
    /\ sPath = "none" /\ sResult = <<>> /\ sPrev = "none" /\ sFlips = 0
    /\ sCompared = <<>> /\ sFailed = FALSE

\* `if not frame_files: return []`
FilterEmpty ==
    /\ sPc = "call" /\ sFrames = 0
    /\ sPc' = "done" /\ sPath' = "empty" /\ sResult' = <<>>
    /\ UNCHANGED <<sFrames, sI, sUnique, sLast, sPrev, sFlips, sCompared, sFailed>>
    /\ UNCHANGED otherThanSampler

\* unique_frames = [frame_files[0]]; last_selected_index = 0; the loop starts at 1
FilterStart ==
    /\ sPc = "call" /\ sFrames > 0
    /\ sPc' = "loop"
    /\ sUnique' = <<FrameFiles(sFrames)[1]>>
    /\ sLast' = 0
    /\ sI' = 1
    /\ UNCHANGED <<sFrames, sPath, sResult, sPrev, sFlips, sCompared, sFailed>>
    /\ UNCHANGED otherThanSampler

\* one iteration of `for i, current_frame in enumerate(frame_files[1:], 1)`.
\* calculate_image_similarity never raises (it returns False instead), so each
\* comparison ends in a verdict: firstSimilar is the place in the window of the
\* first comparison that says "similar" (the inner loop breaks there), 0 when
\* every comparison says "not similar". A comparison that fails inside the
\* scorer (an image that cannot be read, an error of a method) is one of
\* those that say "not similar": `failed` tells whether there was one.
FilterCandidate ==
    /\ sPc = "loop" /\ sI < sFrames
    /\ sFrames <= MaxFrames
    /\ IF sI - sLast < MinFrameGap
       THEN \* too close to the last selected frame: continue
            UNCHANGED <<sUnique, sLast, sPrev, sFlips, sCompared, sFailed>>
       ELSE LET recent_unique_frames == Recent(sUnique, RecentWindow) IN
            \E firstSimilar \in 0..Len(recent_unique_frames), failed \in BOOLEAN :
              LET is_unique == (firstSimilar = 0)
                  v     == IF is_unique THEN "unique" ELSE "similar"
                  flips == IF sPrev \in Verdicts /\ sPrev # v THEN sFlips + 1 ELSE sFlips
              IN  /\ failed => firstSimilar # 1
                  /\ sFailed' = (sFailed \/ failed)
                  /\ flips <= MaxFlips
                  /\ sPrev' = v
                  /\ sFlips' = flips
                  /\ sCompared' = IF is_unique THEN recent_unique_frames
                                  ELSE SubSeq(recent_unique_frames, 1, firstSimilar)
                  /\ IF is_unique
                     THEN /\ sUnique' = Append(sUnique, FrameFiles(sFrames)[sI + 1])
                          /\ sLast' = sI
                     ELSE UNCHANGED <<sUnique, sLast>>
    /\ sI' = sI + 1
    /\ UNCHANGED <<sPc, sFrames, sPath, sResult>>
    /\ UNCHANGED otherThanSampler

\* an exception inside the try block (a failing write to stderr, say):
\* the except block returns the time-based sample
FilterRaise ==
    /\ sPc = "loop"
    /\ sPc' = "done" /\ sPath' = "fallback"
    /\ sResult' = FallbackSample(FrameFiles(sFrames))
    /\ UNCHANGED <<sFrames, sI, sUnique, sLast, sPrev, sFlips, sCompared, sFailed>>
    /\ UNCHANGED otherThanSampler

\* the loop is over: additional sampling if needed, then return
FilterReturn ==
    /\ sPc = "loop" /\ sI = sFrames
    /\ sPc' = "done" /\ sPath' = "primary"
    /\ sResult' = CapPrimary(sUnique)
    /\ UNCHANGED <<sFrames, sI, sUnique, sLast, sPrev, sFlips, sCompared, sFailed>>
    /\ UNCHANGED otherThanSampler

-----------------------------------------------------------------------------
(* Inputs of the per-function specifications *)

\* bound of remove_duplicate_detections' input list
MaxDetections == 3

ClassNames ==
    { N_car, N_Truck, N_bus, N_bicycle, N_forklift, N_cart, N_dining_table, N_couch,
      N_box, N_barrel, N_ladder, N_machine, N_chair, N_person, N_backpack, N_bottle,
      N_monitor, N_dog }

Box(x, y, w, h) == [x |-> x, y |-> y, w |-> w, h |-> h]

\* three boxes in a row: centres 0.05 apart, the outer two exactly 0.1 apart
DedupBoxes == { Box(100, 400, 200, 200), Box(150, 400, 200, 200), Box(200, 400, 200, 200) }
DedupClasses == { N_car, N_box }
DedupConfidences == { 30, 60 }

DedupDetections ==
    [class_name : DedupClasses, confidence : DedupConfidences, bbox : DedupBoxes]

SeqsUpTo(S, n) == UNION { [1..k -> S] : k \in 0..n }

\* centre of the frame, left edge, top of the frame
HazardBoxes == { Box(400, 400, 200, 200), Box(0, 400, 200, 200), Box(400, 0, 200, 200) }
HazardConfidences == { 0, 10, 19, 20, 24, 25, 29, 30, 34, 35, 50, 100 }
HazardBases == { 10, DefaultBaseThreshold, 30, 40 }

\* what detect_objects_with_yolo stores for one detection
Detection(class_name, confidence, bbox, potential_hazard) ==
    [ class_name       |-> class_name,
      confidence       |-> confidence,
      bbox             |-> bbox,
      safety_category  |-> classify_object_for_safety(class_name),
      potential_hazard |-> potential_hazard ]

\* the objects a list given to generate_mitigation_strategies is drawn from:
\* a hazard-flagged one for every bucket, and two that are not flagged
MitigationRoster ==
    << Detection(N_car, 50, Box(400, 400, 200, 200), TRUE),
       Detection(N_bus, 50, Box(400, 400, 200, 200), TRUE),
       Detection(N_dining_table, 50, Box(400, 400, 200, 200), TRUE),
       Detection(N_backpack, 50, Box(400, 400, 200, 200), TRUE),
       Detection(N_box, 50, Box(400, 400, 200, 200), TRUE),
       Detection(N_bottle, 50, Box(400, 400, 200, 200), TRUE),
       Detection(N_machine, 50, Box(400, 400, 200, 200), TRUE),
       Detection(N_person, 50, Box(400, 400, 200, 200), TRUE),
       Detection(N_couch, 50, Box(400, 400, 200, 200), TRUE),
       Detection(N_car, 15, Box(0, 400, 200, 200), FALSE),
       Detection(N_chair, 50, Box(400, 400, 200, 200), FALSE) >>

\* the roster's members at the places in S, in roster order
RosterPick(S) ==
    LET Keep(k) == k \in S
        places  == SelectSeq([k \in 1..Len(MitigationRoster) |-> k], Keep)
    IN  [k \in 1..Len(places) |-> MitigationRoster[places[k]]]

AiFlags == [incorrectParking : BOOLEAN, wasteMaterial : BOOLEAN]

-----------------------------------------------------------------------------
(* One call of each pure function *)

DedupOff == dPc = "off" /\ dInput = <<>> /\ dOutput = <<>>

DedupInit ==
    /\ dPc = "call"
    /\ dInput \in SeqsUpTo(DedupDetections, MaxDetections)
    /\ dOutput = <<>>

DedupCall ==
    /\ dPc = "call"
    /\ dPc' = "done"
    /\ dOutput' = remove_duplicate_detections(dInput)
    /\ UNCHANGED dInput
    /\ UNCHANGED otherThanDedup

HazardOff ==
    /\ hPc = "off" /\ hClass = <<>> /\ hConf = 0 /\ hBox = Box(0, 0, 0, 0)
    /\ hBase = 0 /\ hHazard = FALSE

HazardInit ==
    /\ hPc = "call"
    /\ hClass \in ClassNames
    /\ hConf \in HazardConfidences
    /\ hBox \in HazardBoxes
    /\ hBase \in HazardBases
    /\ hHazard = FALSE

HazardCall ==
    /\ hPc = "call"
    /\ hPc' = "done"
    /\ hHazard' = is_critical_safety_hazard(hClass, hConf, hBox, hBase)
    /\ UNCHANGED <<hClass, hConf, hBox, hBase>>
    /\ UNCHANGED otherThanHazard

MitigationOff ==
    /\ mPc = "off" /\ mObjects = <<>>
    /\ mFlags = [incorrectParking |-> FALSE, wasteMaterial |-> FALSE]
    /\ mOut = <<>>

MitigationInit ==
    /\ mPc = "call"
    /\ \E S \in SUBSET (1..Len(MitigationRoster)) : mObjects = RosterPick(S)
    /\ mFlags \in AiFlags
    /\ mOut = <<>>

MitigationCall ==
    /\ mPc = "call"
    /\ mPc' = "done"
    /\ mOut' = generate_mitigation_strategies(mObjects, mFlags)
    /\ UNCHANGED <<mObjects, mFlags>>
    /\ UNCHANGED otherThanMitigation

-----------------------------------------------------------------------------
(* analyze_frames_with_openrouter: data *)

\* bounds of the runs' inputs
MaxDirFrames == 4
MaxCacheDirFrames == 1
\* the frame directory of the overlapping runs: empty, or one frame (the
\* runs overlap in the same way whatever the number of frames)
RaceDirFrames == {0, 1}

\* the analysis runs; each is one call of analyze_frames_with_openrouter
Runs == {"run1", "run2"}

\* the sanitized dataset names (safe_name) the runs may derive
Identities == {"video_a", "video_b"}

\* {"success": False, "error": ...}
Failure(error) == [success |-> FALSE, error |-> error]

\* no value yet (a local not assigned, a file not there)
Nothing == Failure("")

\* a file of the dataset directory: absent, unreadable as JSON, or holding content
AbsentFile == [state |-> "absent", content |-> Nothing]
CorruptFile == [state |-> "corrupt", content |-> Nothing]
\* (json.dump of a dict of strings, numbers, booleans, lists and dicts with
\* string keys, which json.load gives back as it was written)
FileWith(content) == [state |-> "ok", content |-> content]

\* a plausible slip: the size of the box is looked at before the class
assess_hazard_severity_size_first(class_name, confidence, bbox_position) ==
    LET class_lower == Lower(class_name)
        object_size == bbox_position.w * bbox_position.h
    IN  IF object_size > 100000
        THEN [severity |-> "high", priority |-> 2, immediate_action |-> TRUE]
        ELSE IF AnyIn(SeverityVehicleItems, class_lower)
        THEN [severity |-> "critical", priority |-> 1, immediate_action |-> TRUE]
        ELSE IF 300 <= CenterX(bbox_position) /\ CenterX(bbox_position) <= 700
                /\ object_size > 50000
        THEN [severity |-> "medium", priority |-> 3, immediate_action |-> FALSE]
        ELSE [severity |-> "low", priority |-> 4, immediate_action |-> FALSE]

\* Severity assignment of a confirmed hazard
assess_hazard_severity(class_name, confidence, bbox_position) ==
    LET class_lower == Lower(class_name)
        object_size == bbox_position.w * bbox_position.h
    IN  IF AnyIn(SeverityVehicleItems, class_lower)
        THEN [severity |-> "critical", priority |-> 1, immediate_action |-> TRUE]
        ELSE IF object_size > 100000
        THEN [severity |-> "high", priority |-> 2, immediate_action |-> TRUE]
        ELSE IF 300 <= CenterX(bbox_position) /\ CenterX(bbox_position) <= 700
                /\ object_size > 50000
        THEN [severity |-> "medium", priority |-> 3, immediate_action |-> FALSE]
        ELSE [severity |-> "low", priority |-> 4, immediate_action |-> FALSE]

\* what the detector models report on the frame with the given name: the scene
\* of the video (nothing on every third frame, a car on the next, a couch and a
\* chair on the one after)
SceneObjects(filename) ==
    IF      filename % 3 = 0 THEN <<>>
    ELSE IF filename % 3 = 1 THEN << [class_name |-> N_car, confidence |-> 50,
                                      bbox |-> Box(400, 400, 200, 200)] >>
    ELSE << [class_name |-> N_couch, confidence |-> 60, bbox |-> Box(300, 500, 400, 300)],
            [class_name |-> N_chair, confidence |-> 45, bbox |-> Box(100, 600, 100, 200)] >>

\* detect_objects_with_yolo: [] without the detector, else every reported
\* object with its category and hazard flag, deduplicated
detect_objects_with_yolo(filename, has_yolo) ==
    IF ~has_yolo
    THEN <<>>
    ELSE LET objects == SceneObjects(filename) IN
         remove_duplicate_detections(
            [k \in 1..Len(objects) |->
                Detection(objects[k].class_name, objects[k].confidence, objects[k].bbox,
                          is_critical_safety_hazard(objects[k].class_name,
                                                    objects[k].confidence,
                                                    objects[k].bbox,
                                                    DefaultBaseThreshold))])

\* the sorted list of a set of frame positions
RECURSIVE SortedSeq(_)
SortedSeq(S) ==
    IF S = {} THEN <<>>
    ELSE LET m == CHOOSE x \in S : \A y \in S : x <= y
         IN  <<m>> \o SortedSeq(S \ {m})

\* filter_unique_frames as a function of what happened inside it: the
\* candidates judged unique (kept), or an exception (raised)
filter_unique_frames(n, kept, raised) ==
    IF n = 0 THEN <<>>
    ELSE IF raised THEN FallbackSample(FrameFiles(n))
    ELSE CapPrimary(<<FrameFiles(n)[1]>> \o SortedSeq(kept))

\* `if len(unique_frame_files) > 15:` the additional safety check of the run
SafetyResample(unique_frame_files) ==
    IF Len(unique_frame_files) > 15
    THEN Take(Stride(unique_frame_files, Max(2, Len(unique_frame_files) \div 10)), 10)
    ELSE unique_frame_files

\* Step 2: the frames that could be read, each with its place in
\* unique_frame_files as original_index
LoadFrames(unique_frame_files, unreadable) ==
    LET Keep(k) == k \notin unreadable
        places  == SelectSeq([k \in 1..Len(unique_frame_files) |-> k], Keep)
    IN  [k \in 1..Len(places) |->
            [filename |-> unique_frame_files[places[k]], original_index |-> places[k] - 1]]

\* batch_size = min(3, max(1, len(frames_data) // 2))
BatchSize(frames_data) == Min(3, Max(1, Len(frames_data) \div 2))

\* total_batches = (len(frames_data) + batch_size - 1) // batch_size
TotalBatches(frames_data, batch_size) == (Len(frames_data) + batch_size - 1) \div batch_size

\* a plausible slip: the batch number is taken for the start index
BatchFramesFromNumber(frames_data, batch_size, batch_num) ==
    SubSeq(frames_data, batch_num + 1, Min(batch_num + batch_size, Len(frames_data)))

\* frames_data[start_idx:end_idx] of batch batch_num
BatchFrames(frames_data, batch_size, batch_num) ==
    LET start_idx == batch_num * batch_size
        end_idx   == Min(start_idx + batch_size, Len(frames_data))
    IN  SubSeq(frames_data, start_idx + 1, end_idx)

\* how a call of the annotation service can end
ReplyKinds == {"ok", "http_error", "timeout", "network", "malformed"}

\* the issue the service reports on every frame of a batch it answers
IssueChoices == {"none", "parking", "debris", "obstruction"}

\* the frameDetails of a well-formed answer: one entry per submitted frame,
\* numbered from start_frame_idx as the prompt instructs
ReplyDetails(batch_frames, start_frame_idx, issue) ==
    [k \in 1..Len(batch_frames) |->
        [frameIndex   |-> start_frame_idx + k - 1,
         safetyIssues |-> IF issue = "none" THEN <<>>
                          ELSE << [type |-> issue, gridCells |-> "B2"] >>]]

\* the exceptions a call can end in
BatchExceptions == {"timeout", "network", "malformed"}

\* analyze_batch_with_openrouter: the dict it returns. A non-200 answer gives
\* the error dict directly; every exception is caught by its own
\* `except Exception` and gives the error dict too
analyze_batch_with_openrouter(batch_frames, start_frame_idx, kind, issue) ==
    IF kind = "ok"
    THEN [success |-> TRUE, frameDetails |-> ReplyDetails(batch_frames, start_frame_idx, issue)]
    ELSE [success |-> FALSE, frameDetails |-> <<>>]

\* `except Exception` of analyze_batch_with_openrouter holds all of them
CaughtInBatch == BatchExceptions

\* `except Exception` around the call in process_frames_in_batches would too
CaughtInLoop == BatchExceptions

\* a plausible slip: the timeout is let through to the run's own
\* `except requests.exceptions.Timeout`
EscapesToRunTimeout(kind) == kind = "timeout"

\* an exception of a call reaches the except clauses of the run only if
\* neither of the two holds it
EscapesToRun(kind) == kind \in BatchExceptions \ (CaughtInBatch \cup CaughtInLoop)

\* a plausible slip: the closing `except Exception` is missing
TopLevelCatchesNamedOnly(exception) == exception \in BatchExceptions

\* the except clauses that close analyze_frames_with_openrouter name the
\* timeout, the request exception and the JSON error, and end with
\* `except Exception`, which holds every other one
TopLevelCatches(exception) == exception \in BatchExceptions \cup {"other"}

\* the error each of them reports
TopLevelError(exception) ==
    IF      exception = "timeout"   THEN "OpenRouter API request timed out"
    ELSE IF exception = "network"   THEN "Network error"
    ELSE IF exception = "malformed" THEN "Failed to parse API response as JSON"
    ELSE "Unexpected error"

\* the frames_data entry whose original_index is frame_index, 0 when none
CorrespondingFrame(frames_data, frame_index) ==
    IF \E k \in 1..Len(frames_data) : frames_data[k].original_index = frame_index
    THEN CHOOSE k \in 1..Len(frames_data) :
            /\ frames_data[k].original_index = frame_index
            /\ \A j \in 1..(k - 1) : frames_data[j].original_index # frame_index
    ELSE 0

\* the boxes of the hazard-classified detections of one frame
HazardBoxesOf(frame_yolo_detections) ==
    LET IsHazard(d) == is_critical_safety_hazard(d.class_name, d.confidence, d.bbox,
                                                 DefaultBaseThreshold)
        hazards == SelectSeq(frame_yolo_detections, IsHazard)
    IN  [k \in 1..Len(hazards) |->
            LET severity_info == assess_hazard_severity(hazards[k].class_name,
                                                        hazards[k].confidence, hazards[k].bbox)
            IN  [source     |-> "yolo_detection",
                 class_name |-> hazards[k].class_name,
                 bbox       |-> hazards[k].bbox,
                 severity   |-> severity_info.severity,
                 priority   |-> severity_info.priority]]

\* the boxes of the annotation issues of one frame
IssueBoxesOf(safetyIssues) ==
    [k \in 1..Len(safetyIssues) |->
        [source |-> "ai_analysis", type |-> safetyIssues[k].type,
         gridCells |-> safetyIssues[k].gridCells]]

\* the frame object built for entry frame_idx (0-based) of all_frame_details,
\* <<>> when no loaded frame has that frameIndex
ProcessedFrame(frame_idx, all_frame_details, frames_data, all_yolo_detections) ==
    LET frame_detail == all_frame_details[frame_idx + 1]
        place        == CorrespondingFrame(frames_data, frame_detail.frameIndex)
        frame_yolo_detections ==
            IF frame_idx < Len(all_yolo_detections)
            THEN all_yolo_detections[frame_idx + 1] ELSE <<>>
    IN  IF place = 0 THEN <<>>
        ELSE << [filename        |-> frames_data[place].filename,
                 boundingBoxes   |-> IssueBoxesOf(frame_detail.safetyIssues)
                                        \o HazardBoxesOf(frame_yolo_detections),
                 yolo_detections |-> Len(frame_yolo_detections),
                 ai_issues       |-> Len(frame_detail.safetyIssues)] >>

RECURSIVE ProcessedFrames(_, _, _, _)
ProcessedFrames(frame_idx, all_frame_details, frames_data, all_yolo_detections) ==
    IF frame_idx >= Len(all_frame_details) THEN <<>>
    ELSE ProcessedFrame(frame_idx, all_frame_details, frames_data, all_yolo_detections)
         \o ProcessedFrames(frame_idx + 1, all_frame_details, frames_data, all_yolo_detections)

\* some issue of a frame detail that has a corresponding frame has a type in types
IssueSeen(all_frame_details, frames_data, types) ==
    \E k \in 1..Len(all_frame_details) :
        /\ CorrespondingFrame(frames_data, all_frame_details[k].frameIndex) # 0
        /\ \E j \in 1..Len(all_frame_details[k].safetyIssues) :
              all_frame_details[k].safetyIssues[j].type \in types

\* [obj for frame_detections in all_yolo_detections for obj in frame_detections]
RECURSIVE Flatten(_)
Flatten(lists) == IF lists = <<>> THEN <<>> ELSE Head(lists) \o Flatten(Tail(lists))

\* Step 4 and the final result object
BuildResult(frame_files, unique_frame_files, frames_data, all_frame_details, all_yolo_detections) ==
    LET overall_incorrect_parking ==
            IssueSeen(all_frame_details, frames_data, {"parking", "vehicle"})
        overall_waste_material ==
            IssueSeen(all_frame_details, frames_data, {"waste", "debris"})
        ai_analysis_summary == [incorrectParking |-> overall_incorrect_parking,
                                wasteMaterial    |-> overall_waste_material]
    IN  [success  |-> TRUE,
         analysis |-> [incorrectParking     |-> overall_incorrect_parking,
                       wasteMaterial        |-> overall_waste_material,
                       frameDetails         |-> all_frame_details,
                       frames               |-> ProcessedFrames(0, all_frame_details,
                                                   frames_data, all_yolo_detections),
                       mitigationStrategies |-> generate_mitigation_strategies(
                                                   Flatten(all_yolo_detections),
                                                   ai_analysis_summary)],
         frames_analyzed |-> Len(frames_data),
         total_frames    |-> frame_files,
         unique_frames   |-> Len(unique_frame_files)]

-----------------------------------------------------------------------------
(* analyze_frames_with_openrouter: one action per step of a run *)

\* the locals of a run before the call
IdleRun ==
    [ pc                  |-> "idle",
      order               |-> 0,          \* how many runs had started before it
      identity            |-> "",         \* safe_name
      frame_files         |-> 0,          \* len(frame_files)
      unique_frame_files  |-> <<>>,
      frames_data         |-> <<>>,
      all_yolo_detections |-> <<>>,
      batch_num           |-> 0,
      all_frame_details   |-> <<>>,
      timed_out           |-> FALSE,      \* some batch's call timed out
      result_obj          |-> Nothing,
      wrote_analysis      |-> FALSE,      \* its json.dump of analysis.json went through
      wrote_index         |-> FALSE,      \* its json.dump of index.json went through
      via_cache           |-> FALSE,      \* it returned the cached analysis
      returned            |-> Nothing ]   \* the value returned to the caller

\* a run that is not part of the scenario
OffRun == [IdleRun EXCEPT !.pc = "off"]

Active(p) == run[p].pc \notin {"off", "idle", "done"}

\* the return statements: the run ends with the value; its locals are gone,
\* what is kept is the record of what it did
Return(p, value, locals) ==
    run' = [run EXCEPT ![p] = [IdleRun EXCEPT
               !.pc             = "done",
               !.order          = locals.order,
               !.identity       = locals.identity,
               !.timed_out      = locals.timed_out,
               !.wrote_analysis = locals.wrote_analysis,
               !.wrote_index    = locals.wrote_index,
               !.via_cache      = locals.via_cache,
               !.returned       = value]]

\* an exception in the outer try block: the except clause that holds it
\* returns its error dict; one that none holds reaches the caller
Raise(p, exception, locals) ==
    IF TopLevelCatches(exception)
    THEN Return(p, Failure(TopLevelError(exception)), locals)
    ELSE run' = [run EXCEPT ![p] = [locals EXCEPT !.pc = "raised"]]

\* a plausible slip: a lock on the dataset, a run waits while another run
\* is under way
StartRunExclusive(p) ==
    /\ run[p].pc = "idle"
    /\ \A q \in Runs \ {p} : ~Active(q)
    /\ \E d \in Identities :
          run' = [run EXCEPT ![p] = [@ EXCEPT !.pc = "cache", !.identity = d,
                     !.order = Cardinality({q \in Runs : run[q].pc \notin {"off", "idle"}})]]
    /\ UNCHANGED <<cacheStore, metaStore, indexStore, framesDir, hasYolo, svcCalls>>
    /\ UNCHANGED otherThanRun

\* the call: the dataset name is derived and the dataset directory made
StartRun(p) ==
    /\ run[p].pc = "idle"
    /\ \E d \in Identities :
          run' = [run EXCEPT ![p] = [@ EXCEPT !.pc = "cache", !.identity = d,
                     !.order = Cardinality({q \in Runs : run[q].pc \notin {"off", "idle"}})]]
    /\ UNCHANGED <<cacheStore, metaStore, indexStore, framesDir, hasYolo, svcCalls>>
    /\ UNCHANGED otherThanRun

\* a plausible slip: the cached analysis is looked for but never returned
CacheReadableNever(file) == FALSE

\* os.path.exists(cached_analysis_path) and json.load goes through
CacheReadable(file) == file.state = "ok"

\* a plausible slip: the cached analysis is read but the run goes on and
\* recomputes
CacheLookupRecompute(p) ==
    /\ run[p].pc = "cache"
    /\ run' = [run EXCEPT ![p].pc = "list"]
    /\ UNCHANGED <<cacheStore, metaStore, indexStore, framesDir, hasYolo, svcCalls>>
    /\ UNCHANGED otherThanRun

\* the early return on a cached analysis; a missing or unreadable file
\* lets the run go on
CacheLookup(p) ==
    /\ run[p].pc = "cache"
    /\ IF CacheReadable(cacheStore[run[p].identity])
       THEN Return(p, cacheStore[run[p].identity].content,
                   [run[p] EXCEPT !.via_cache = TRUE])
       ELSE run' = [run EXCEPT ![p].pc = "list"]
    /\ UNCHANGED <<cacheStore, metaStore, indexStore, framesDir, hasYolo, svcCalls>>
    /\ UNCHANGED otherThanRun

\* os.listdir, the sort, and `if not frame_files`
ListFrames(p) ==
    /\ run[p].pc = "list"
    /\ IF framesDir = 0
       THEN Return(p, Failure("No frame files found in directory"), run[p])
       ELSE run' = [run EXCEPT ![p] = [@ EXCEPT !.pc = "sample", !.frame_files = framesDir]]
    /\ UNCHANGED <<cacheStore, metaStore, indexStore, framesDir, hasYolo, svcCalls>>
    /\ UNCHANGED otherThanRun

\* Step 1: filter_unique_frames and the additional safety check
SampleFrames(p) ==
    /\ run[p].pc = "sample"
    /\ \E kept \in SUBSET (1..(run[p].frame_files - 1)), raised \in BOOLEAN :
          run' = [run EXCEPT ![p] = [@ EXCEPT !.pc = "load",
                     !.unique_frame_files =
                         SafetyResample(filter_unique_frames(run[p].frame_files, kept, raised))]]
    /\ UNCHANGED <<cacheStore, metaStore, indexStore, framesDir, hasYolo, svcCalls>>
    /\ UNCHANGED otherThanRun

\* Step 2: the frames are read; those that cannot be read are left out
LoadStep(p) ==
    /\ run[p].pc = "load"
    /\ \E unreadable \in SUBSET (1..Len(run[p].unique_frame_files)) :
          LET frames_data == LoadFrames(run[p].unique_frame_files, unreadable) IN
          IF frames_data = <<>>
          THEN Return(p, Failure("No frames could be loaded for analysis"), run[p])
          ELSE run' = [run EXCEPT ![p] = [@ EXCEPT !.pc = "detect",
                                                   !.frames_data = frames_data]]
    /\ UNCHANGED <<cacheStore, metaStore, indexStore, framesDir, hasYolo, svcCalls>>
    /\ UNCHANGED otherThanRun

\* process_frames_in_batches, first loop: the detector on every loaded frame
DetectStep(p) ==
    /\ run[p].pc = "detect"
    /\ run' = [run EXCEPT ![p] = [@ EXCEPT !.pc = "batch", !.batch_num = 0,
                  !.all_yolo_detections =
                      [k \in 1..Len(run[p].frames_data) |->
                          detect_objects_with_yolo(run[p].frames_data[k].filename, hasYolo)]]]
    /\ UNCHANGED <<cacheStore, metaStore, indexStore, framesDir, hasYolo, svcCalls>>
    /\ UNCHANGED otherThanRun

\* process_frames_in_batches, one iteration of the batch loop: the batch is
\* posted to the annotation service and its frame details are added when the
\* call succeeds
SubmitBatch(p) ==
    /\ run[p].pc = "batch"
    /\ run[p].batch_num < TotalBatches(run[p].frames_data, BatchSize(run[p].frames_data))
    /\ \E kind \in ReplyKinds, issue \in IssueChoices :
          LET batch_size    == BatchSize(run[p].frames_data)
              batch_frames  == BatchFrames(run[p].frames_data, batch_size, run[p].batch_num)
              batch_results == analyze_batch_with_openrouter(
                                   batch_frames, run[p].batch_num * batch_size, kind, issue)
              locals        == [run[p] EXCEPT !.timed_out = @ \/ kind = "timeout"]
          IN  /\ kind # "ok" => issue = "none"
              /\ IF EscapesToRun(kind)
                 THEN Raise(p, kind, locals)
                 ELSE run' = [run EXCEPT ![p] = [locals EXCEPT
                          !.batch_num = @ + 1,
                          !.all_frame_details =
                              IF batch_results.success
                              THEN @ \o batch_results.frameDetails ELSE @]]
              /\ svcCalls' = [svcCalls EXCEPT ![p] = Append(@,
                      [batch_num    |-> run[p].batch_num,
                       filenames    |-> [k \in 1..Len(batch_frames) |-> batch_frames[k].filename],
                       success      |-> batch_results.success,
                       frameDetails |-> batch_results.frameDetails])]
    /\ UNCHANGED <<cacheStore, metaStore, indexStore, framesDir, hasYolo>>
    /\ UNCHANGED otherThanRun


-----------------------------------------------------------------------------
(* convert_grid_cells_to_bounding_box *)
(* Grid boxes are in sixtieths of the frame, so that the cell width 1/4,   *)
(* the cell height 1/3, the floor 0.05 and the default box are all exact.  *)

\* bound of the descriptors: the number of tokens joined into one
MaxTokens == 3

\* cell_width = 1.0 / 4.0
CellWidth == 15
\* cell_height = 1.0 / 3.0
CellHeight == 20
\* the floor 0.05 of w and h
MinBoxSide == 3
\* 1.0
FullSide == 60

\* {"x": 0.1, "y": 0.1, "w": 0.2, "h": 0.2}
DefaultBox == [x |-> 6, y |-> 6, w |-> 12, h |-> 12]

\* a str value with the given characters
Str(chars) == [type |-> "str", chars |-> chars]
\* None
NoneValue == [type |-> "none", chars |-> <<>>]
\* a value that is neither None nor a str and is truthy (a number, a list)
OtherValue == [type |-> "other", chars |-> <<>>]

\* str.upper() on one character
UpperChar(c) ==
    IF \E k \in 1..Len(LowerLetters) : LowerLetters[k] = c
    THEN UpperLetters[CHOOSE k \in 1..Len(LowerLetters) : LowerLetters[k] = c]
    ELSE c

\* str.upper()
Upper(s) == [k \in 1..Len(s) |-> UpperChar(s[k])]

\* str.replace(old, new) for one-character old and new
ReplaceChar(s, old, new) == [k \in 1..Len(s) |-> IF s[k] = old THEN new ELSE s[k]]

\* str.strip(): leading and trailing blanks go
RECURSIVE StripLeft(_)
StripLeft(s) == IF s # <<>> /\ Head(s) = " " THEN StripLeft(Tail(s)) ELSE s
RECURSIVE StripRight(_)
StripRight(s) ==
    IF s # <<>> /\ s[Len(s)] = " " THEN StripRight(SubSeq(s, 1, Len(s) - 1)) ELSE s
Strip(s) == StripRight(StripLeft(s))

\* str.split(sep) for a one-character sep: always at least one piece
RECURSIVE SplitAt(_, _, _)
SplitAt(s, sep, piece) ==
    IF s = <<>> THEN <<piece>>
    ELSE IF Head(s) = sep THEN <<piece>> \o SplitAt(Tail(s), sep, <<>>)
    ELSE SplitAt(Tail(s), sep, Append(piece, Head(s)))
Split(s, sep) == SplitAt(s, sep, <<>>)

DigitChars == <<"0", "1", "2", "3", "4", "5", "6", "7", "8", "9">>
IsDigit(c) == \E k \in 1..Len(DigitChars) : DigitChars[k] = c
DigitValue(c) == (CHOOSE k \in 1..Len(DigitChars) : DigitChars[k] = c) - 1

RECURSIVE DigitsValue(_, _)
DigitsValue(digits, acc) ==
    IF digits = <<>> THEN acc
    ELSE DigitsValue(Tail(digits), 10 * acc + DigitValue(Head(digits)))

\* int(text): blanks round the number and a leading "+" are accepted, then
\* one or more digits; anything else is a ValueError (ok = FALSE)
IntOf(text) ==
    LET stripped == Strip(text)
        unsigned == IF stripped # <<>> /\ Head(stripped) = "+" THEN Tail(stripped)
                    ELSE stripped
    IN  IF unsigned # <<>> /\ \A k \in 1..Len(unsigned) : IsDigit(unsigned[k])
        THEN [ok |-> TRUE, value |-> DigitsValue(unsigned, 0)]
        ELSE [ok |-> FALSE, value |-> 0]

\* the row letters and their row_index
RowLetters == <<"A", "B", "C">>
IsRowLetter(c) == \E k \in 1..Len(RowLetters) : RowLetters[k] = c
RowIndex(c) == (CHOOSE k \in 1..Len(RowLetters) : RowLetters[k] = c) - 1

\* col_index = int(col_number) - 1
ColumnIndex(col_number) == col_number - 1

\* a plausible slip: the range test lets a fifth column through
ColumnInGridInclusive(col_index) == 0 <= col_index /\ col_index <= 4

\* 0 <= col_index <= 3
ColumnInGrid(col_index) == 0 <= col_index /\ col_index <= 3

\* the body of `for cell in cells`: the (row_index, col_index) the cell adds
\* to grid_positions, <<>> when it adds none
CellPosition(cell_text) ==
    LET cell == Strip(Upper(cell_text)) IN
    IF Len(cell) < 2 THEN <<>>
    ELSE LET row_letter == cell[1]
             col_number == IntOf(SubSeq(cell, 2, Len(cell)))
         IN  IF ~col_number.ok THEN <<>>
             ELSE IF ~IsRowLetter(row_letter) THEN <<>>
             ELSE IF ColumnInGrid(ColumnIndex(col_number.value))
             THEN << <<RowIndex(row_letter), ColumnIndex(col_number.value)>> >>
             ELSE <<>>

\* grid_positions after the loop
RECURSIVE GridPositions(_)
GridPositions(cells) ==
    IF cells = <<>> THEN <<>>
    ELSE CellPosition(Head(cells)) \o GridPositions(Tail(cells))

\* min(...) and max(...) over the rows (part 1) or columns (part 2)
MinOf(grid_positions, part) ==
    CHOOSE v \in {grid_positions[k][part] : k \in 1..Len(grid_positions)} :
        \A k \in 1..Len(grid_positions) : v <= grid_positions[k][part]
MaxOf(grid_positions, part) ==
    CHOOSE v \in {grid_positions[k][part] : k \in 1..Len(grid_positions)} :
        \A k \in 1..Len(grid_positions) : v >= grid_positions[k][part]

\* a plausible slip: the box of the first named cell only
BoxOfFirstPosition(grid_positions) ==
    [x |-> grid_positions[1][2] * CellWidth, y |-> grid_positions[1][1] * CellHeight,
     w |-> CellWidth, h |-> CellHeight]

\* the bounding box of the positions, with the clamps of the source
BoxOfPositions(grid_positions) ==
    LET min_row == MinOf(grid_positions, 1)
        max_row == MaxOf(grid_positions, 1)
        min_col == MinOf(grid_positions, 2)
        max_col == MaxOf(grid_positions, 2)
        x == Max(0, Min(FullSide, min_col * CellWidth))
        y == Max(0, Min(FullSide, min_row * CellHeight))
        w == Max(MinBoxSide, Min(FullSide - x, (max_col - min_col + 1) * CellWidth))
        h == Max(MinBoxSide, Min(FullSide - y, (max_row - min_row + 1) * CellHeight))
    IN  [x |-> x, y |-> y, w |-> w, h |-> h]

\* convert_grid_cells_to_bounding_box. A value without .strip() raises inside
\* the try block and the except clause returns the default box
convert_grid_cells_to_bounding_box(grid_cells_string) ==
    IF grid_cells_string.type = "none" THEN DefaultBox
    ELSE IF grid_cells_string.type # "str" THEN DefaultBox
    ELSE IF grid_cells_string.chars = <<>> \/ Strip(grid_cells_string.chars) = <<>>
    THEN DefaultBox
    ELSE LET split == Split(ReplaceChar(grid_cells_string.chars, "-", ","), ",")
             cells == [k \in 1..Len(split) |-> Strip(split[k])]
             grid_positions == GridPositions(cells)
         IN  IF grid_positions = <<>> THEN DefaultBox
             ELSE BoxOfPositions(grid_positions)

-----------------------------------------------------------------------------
(* One call of convert_grid_cells_to_bounding_box *)

\* the tokens descriptors are built from, each with the cells of the 4x3
\* grid it names (row 0..2, column 0..3): none for a token that is no cell
GridTokens == <<
    [text |-> <<"A", "1">>,           cells |-> {<<0, 0>>}],
    [text |-> <<"a", "4">>,           cells |-> {<<0, 3>>}],
    [text |-> <<"B", "2">>,           cells |-> {<<1, 1>>}],
    [text |-> <<"b", "3">>,           cells |-> {<<1, 2>>}],
    [text |-> <<"C", "1">>,           cells |-> {<<2, 0>>}],
    [text |-> <<"C", "4">>,           cells |-> {<<2, 3>>}],
    [text |-> <<" ", "C", "2", " ">>, cells |-> {<<2, 1>>}],
    [text |-> <<>>,                   cells |-> {}],
    [text |-> <<"D", "1">>,           cells |-> {}],
    [text |-> <<"A", "5">>,           cells |-> {}],
    [text |-> <<"A", "0">>,           cells |-> {}],
    [text |-> <<"A", "x">>,           cells |-> {}] >>

\* the separators between tokens
Separators == {",", "-"}

\* the descriptor made of the tokens, joined by the separators
RECURSIVE Joined(_, _)
Joined(tokens, seps) ==
    IF tokens = <<>> THEN <<>>
    ELSE IF Len(tokens) = 1 THEN GridTokens[tokens[1]].text
    ELSE GridTokens[tokens[1]].text \o <<seps[1]>> \o Joined(Tail(tokens), Tail(seps))

\* the cells the tokens name
NamedCells(tokens) == UNION {GridTokens[tokens[k]].cells : k \in 1..Len(tokens)}

GridOff == gPc = "off" /\ gInput = NoneValue /\ gTokens = <<>> /\ gSeps = <<>> /\ gOutput = DefaultBox

GridInit ==
    /\ gPc = "call"
    /\ gOutput = DefaultBox
    /\ \/ /\ gTokens \in SeqsUpTo(1..Len(GridTokens), MaxTokens)
          /\ gTokens # <<>>
          /\ gSeps \in [1..(Len(gTokens) - 1) -> Separators]
          /\ gInput = Str(Joined(gTokens, gSeps))
       \/ /\ gTokens = <<>>
          /\ gSeps = <<>>
          /\ gInput \in {NoneValue, OtherValue, Str(<<>>), Str(<<" ">>), Str(<<" ", " ">>)}

GridCall ==
    /\ gPc = "call"
    /\ gPc' = "done"
    /\ gOutput' = convert_grid_cells_to_bounding_box(gInput)
    /\ UNCHANGED <<gInput, gTokens, gSeps>>
    /\ UNCHANGED otherThanGrid

-----------------------------------------------------------------------------
(* calculate_image_similarity and calculate_frame_similarity *)
(* Scores and thresholds are in hundredths.                                *)

\* the score every method gives to a frame compared with itself, and the
\* highest any of them gives: SSIM, histogram correlation and the normalised
\* template match are all 1.0 on identical images
MaxScore == 100

\* scores the methods may give to two different frames
ScoreLevels == {-50, 88, MaxScore}

\* thresholds a caller may pass
Thresholds == {0, 70, 80, 88, MaxScore}

\* the two scorers: the analyzer's reads its frames from files, the
\* extractor's is handed decoded frames (or None)
Scorers == {"calculate_image_similarity", "calculate_frame_similarity"}

\* frames: which picture it is, and whether cv2.imread gives an image for
\* it (the analyzer) or the frame is not None (the extractor)
SimFrames == [picture : {1, 2}, readable : BOOLEAN]

\* a plausible slip: a score equal to the threshold counts as similar
ExceedsOrMeets(max_similarity, threshold) == max_similarity >= threshold

\* max_similarity > threshold
Exceeds(max_similarity, threshold) == max_similarity > threshold

\* similarity_scores: SSIM when HAS_SCIKIT_IMAGE, the histogram correlation
\* always, the template match unless it raised (bare except: pass)
SimilarityScores(has_scikit_image, template_ok, method_scores) ==
    (IF has_scikit_image THEN <<method_scores.ssim>> ELSE <<>>)
    \o <<method_scores.hist>>
    \o (IF template_ok THEN <<method_scores.template>> ELSE <<>>)

\* max(similarity_scores)
MaxSimilarity(similarity_scores) ==
    CHOOSE s \in {similarity_scores[k] : k \in 1..Len(similarity_scores)} :
        \A k \in 1..Len(similarity_scores) : s >= similarity_scores[k]

\* the verdict of either scorer: False for a missing image and for any
\* exception (the outer except), else max(similarity_scores) > threshold
SimilarityVerdict(frame1, frame2, threshold, has_scikit_image, template_ok, method_scores, raises) ==
    IF ~frame1.readable \/ ~frame2.readable THEN FALSE
    ELSE IF raises THEN FALSE
    ELSE LET similarity_scores == SimilarityScores(has_scikit_image, template_ok, method_scores)
         IN  IF similarity_scores # <<>>
             THEN Exceeds(MaxSimilarity(similarity_scores), threshold)
             ELSE FALSE

SimilarityOff ==
    /\ kPc = "off"
    /\ kCall = [scorer |-> "", frame1 |-> [picture |-> 1, readable |-> FALSE],
                frame2 |-> [picture |-> 1, readable |-> FALSE], threshold |-> 0,
                has_scikit_image |-> FALSE, template_ok |-> FALSE,
                method_scores |-> [ssim |-> 0, hist |-> 0, template |-> 0], raises |-> FALSE]
    /\ kVerdict = FALSE

\* a frame compared with itself scores MaxScore in every method
SimilarityInit ==
    /\ kPc = "call"
    /\ kVerdict = FALSE
    /\ kCall \in [scorer : Scorers, frame1 : SimFrames, frame2 : SimFrames,
                  threshold : Thresholds, has_scikit_image : BOOLEAN,
                  template_ok : BOOLEAN,
                  method_scores : [ssim : ScoreLevels, hist : ScoreLevels, template : ScoreLevels],
                  raises : BOOLEAN]
    /\ kCall.frame1.picture = kCall.frame2.picture =>
          /\ kCall.frame1 = kCall.frame2
          /\ kCall.method_scores = [ssim |-> MaxScore, hist |-> MaxScore, template |-> MaxScore]

SimilarityCall ==
    /\ kPc = "call"
    /\ kPc' = "done"
    /\ kVerdict' = SimilarityVerdict(kCall.frame1, kCall.frame2, kCall.threshold,
                                     kCall.has_scikit_image, kCall.template_ok,
                                     kCall.method_scores, kCall.raises)
    /\ UNCHANGED kCall
    /\ UNCHANGED otherThanSimilarity

-----------------------------------------------------------------------------
(* extract_frames_with_opencv, and the listing of the files it wrote *)

\* bound: the candidates of one video (one per second, frame_interval = 1)
MaxCandidates == 12

\* bound: the candidates that cannot be read, fail the quality gate or
\* cannot be written, in one video
MaxRejects == 1

\* motion_threshold = 800
MotionThreshold == 800

\* motion scores detect_motion may return
MotionLevels == {0, MotionThreshold, MotionThreshold + 1}

\* no frame saved yet: last_saved_frame is None
NoFrame == -1

\* a plausible slip: the similarity verdict is consulted before the motion
ShouldSaveSimilarityFirst(last_saved_frame, motion_score, is_similar, skipped_frames) ==
    IF last_saved_frame = NoFrame THEN TRUE
    ELSE IF is_similar THEN skipped_frames % 3 = 2
    ELSE TRUE

\* should_save, lines 184-207
ShouldSave(last_saved_frame, motion_score, is_similar, skipped_frames) ==
    IF last_saved_frame = NoFrame THEN TRUE
    ELSE IF motion_score > MotionThreshold THEN TRUE
    ELSE IF is_similar THEN skipped_frames % 3 = 2
    ELSE TRUE

\* skipped_frames after the decision: it grows only when a similar frame is
\* skipped
SkippedAfter(last_saved_frame, motion_score, is_similar, skipped_frames) ==
    IF /\ last_saved_frame # NoFrame
       /\ ~(motion_score > MotionThreshold)
       /\ is_similar
       /\ skipped_frames % 3 # 2
    THEN skipped_frames + 1
    ELSE skipped_frames

\* did the candidate reach the verdict "similar"
JudgedSimilar(last_saved_frame, motion_score, is_similar) ==
    /\ last_saved_frame # NoFrame
    /\ ~(motion_score > MotionThreshold)
    /\ is_similar

\* str(n) for n >= 0
RECURSIVE Decimal(_)
Decimal(n) ==
    IF n < 10 THEN <<DigitChars[n + 1]>>
    ELSE Decimal(n \div 10) \o <<DigitChars[(n % 10) + 1]>>

\* f"{n:02d}"
TwoDigits(n) == IF n < 10 THEN <<"0">> \o Decimal(n) ELSE Decimal(n)

\* filename = f"frame_{frame_count}_{minutes:02d}m{seconds:02d}s.jpg"
FrameName(frame_count, current_time) ==
    <<"f", "r", "a", "m", "e", "_">> \o Decimal(frame_count) \o <<"_">>
    \o TwoDigits(current_time \div 60) \o <<"m">> \o TwoDigits(current_time % 60)
    \o <<"s", ".", "j", "p", "g">>

\* the characters of the file names, in the order of their code points
CharOrder == <<".", "0", "1", "2", "3", "4", "5", "6", "7", "8", "9", "_",
               "a", "e", "f", "g", "j", "m", "p", "r", "s">>
CharCode(c) == CHOOSE k \in 1..Len(CharOrder) : CharOrder[k] = c

\* a < b for two str values
RECURSIVE StrLess(_, _)
StrLess(a, b) ==
    IF b = <<>> THEN FALSE
    ELSE IF a = <<>> THEN TRUE
    ELSE IF Head(a) = Head(b) THEN StrLess(Tail(a), Tail(b))
    ELSE CharCode(Head(a)) < CharCode(Head(b))

\* frame_files.sort(): the files ordered by their names as strings
RECURSIVE SortedByName(_)
SortedByName(files) ==
    IF files = {} THEN <<>>
    ELSE LET first == CHOOSE f \in files :
                         \A g \in files \ {f} : StrLess(f.filename, g.filename)
         IN  <<first>> \o SortedByName(files \ {first})

\* the values the iteration never computes are left at their defaults: no
\* quality without a frame, no motion score and no similarity verdict
\* without a frame of acceptable quality and a saved frame to compare it
\* with, no cv2.imwrite unless should_save
Computed(last_saved_frame, ret, quality, motion_score, is_similar, written, skipped_frames) ==
    /\ ~ret => quality
    /\ (~ret \/ ~quality \/ last_saved_frame = NoFrame) => (motion_score = 0 /\ ~is_similar)
    /\ (~ret \/ ~quality
           \/ ~ShouldSave(last_saved_frame, motion_score, is_similar, skipped_frames)) => written

\* what the last candidate was and what became of it
NoCandidate ==
    [time |-> NoFrame, ret |-> FALSE, quality |-> FALSE, first |-> FALSE, motion_score |-> 0,
     is_similar |-> FALSE, skipped_frames |-> 0, written |-> FALSE, kept |-> FALSE]

ExtractOff ==
    /\ ePc = "off" /\ eTime = 0 /\ eFrameCount = 0 /\ eSkipped = 0
    /\ eLastSaved = NoFrame /\ eFrames = <<>> /\ eResult = "" /\ eListed = <<>>
    /\ eLast = NoCandidate /\ eRun = 0 /\ eRejects = 0

ExtractInit ==
    /\ ePc = "open" /\ eTime = 0 /\ eFrameCount = 0 /\ eSkipped = 0
    /\ eLastSaved = NoFrame /\ eFrames = <<>> /\ eResult = "" /\ eListed = <<>>
    /\ eLast = NoCandidate /\ eRun = 0 /\ eRejects = 0

\* cap = cv2.VideoCapture(video_path); a video that does not open raises
ExtractOpen ==
    /\ ePc = "open"
    /\ \E opened \in BOOLEAN :
          IF opened THEN ePc' = "loop" /\ eResult' = eResult
          ELSE ePc' = "done" /\ eResult' = "failure"
    /\ UNCHANGED <<eTime, eFrameCount, eSkipped, eLastSaved, eFrames, eListed, eLast, eRun, eRejects>>
    /\ UNCHANGED otherThanExtract

\* one iteration of `while current_time < duration`
ExtractCandidate ==
    /\ ePc = "loop" /\ eTime < MaxCandidates
    /\ \E ret \in BOOLEAN, quality \in BOOLEAN, motion_score \in MotionLevels,
          is_similar \in BOOLEAN, written \in BOOLEAN :
          LET rejected == ~ret \/ ~quality \/ ~written
              judged == ret /\ quality
              should_save == judged /\ ShouldSave(eLastSaved, motion_score, is_similar, eSkipped)
              kept == should_save /\ written
          IN  /\ Computed(eLastSaved, ret, quality, motion_score, is_similar, written, eSkipped)
              /\ rejected => eRejects < MaxRejects
              /\ eRejects' = IF rejected THEN eRejects + 1 ELSE eRejects
              /\ eSkipped' = IF judged
                             THEN SkippedAfter(eLastSaved, motion_score, is_similar, eSkipped)
                             ELSE eSkipped
              /\ IF kept
                 THEN /\ eFrames' = Append(eFrames,
                              [frame_number |-> eFrameCount, time |-> eTime,
                               filename |-> FrameName(eFrameCount, eTime)])
                      /\ eLastSaved' = eTime
                      /\ eFrameCount' = eFrameCount + 1
                 ELSE UNCHANGED <<eFrames, eLastSaved, eFrameCount>>
              /\ eRun' = IF ~judged THEN eRun
                         ELSE IF JudgedSimilar(eLastSaved, motion_score, is_similar)
                         THEN eRun + 1
                         ELSE 0
              /\ eLast' = [time |-> eTime, ret |-> ret, quality |-> quality,
                           first |-> eLastSaved = NoFrame, motion_score |-> motion_score,
                           is_similar |-> is_similar, skipped_frames |-> eSkipped,
                           written |-> written, kept |-> kept]
    /\ eTime' = eTime + 1
    /\ UNCHANGED <<ePc, eResult, eListed>>
    /\ UNCHANGED otherThanExtract

\* an exception inside the loop (cv2.resize or cv2.imencode raising): the
\* except clause returns a failure; the files written so far stay
ExtractRaise ==
    /\ ePc = "loop"
    /\ ePc' = "done" /\ eResult' = "failure"
    /\ UNCHANGED <<eTime, eFrameCount, eSkipped, eLastSaved, eFrames, eListed, eLast, eRun, eRejects>>
    /\ UNCHANGED otherThanExtract

\* current_time >= duration: cap.release() and the success result
ExtractReturn ==
    /\ ePc = "loop"
    /\ ePc' = "done" /\ eResult' = "success"
    /\ UNCHANGED <<eTime, eFrameCount, eSkipped, eLastSaved, eFrames, eListed, eLast, eRun, eRejects>>
    /\ UNCHANGED otherThanExtract

\* the analyzer lists output_dir: os.listdir, the frame_*.jpg filter, sort()
ListFrameFiles ==
    /\ ePc = "done"
    /\ ePc' = "listed"
    /\ eListed' = SortedByName({eFrames[k] : k \in 1..Len(eFrames)})
    /\ UNCHANGED <<eTime, eFrameCount, eSkipped, eLastSaved, eFrames, eResult, eLast, eRun, eRejects>>
    /\ UNCHANGED otherThanExtract

-----------------------------------------------------------------------------
(* One call of assess_hazard_severity *)

\* boxes with areas below, at and above 5% and 10% of the frame and centres
\* left of, at the ends of, inside and right of [0.3, 0.7]
SeverityBoxes ==
    { Box(x, 400, w, h) : x \in {0, 50, 100, 200, 450, 500, 600},
                          w \in {200, 250, 400, 500},
                          h \in {200, 250, 300} }

SeverityOff ==
    /\ vPc = "off" /\ vClass = <<>> /\ vConf = 0 /\ vBox = Box(0, 0, 0, 0)
    /\ vOut = [severity |-> "", priority |-> 0, immediate_action |-> FALSE]

SeverityInit ==
    /\ vPc = "call"
    /\ vClass \in ClassNames
    /\ vConf \in {20, 50}
    /\ vBox \in SeverityBoxes
    /\ vOut = [severity |-> "", priority |-> 0, immediate_action |-> FALSE]

SeverityCall ==
    /\ vPc = "call"
    /\ vPc' = "done"
    /\ vOut' = assess_hazard_severity(vClass, vConf, vBox)
    /\ UNCHANGED <<vClass, vConf, vBox>>
    /\ UNCHANGED otherThanSeverity
\* Step 4: the batch loop is over; the frame objects, the flags, the
\* mitigations and the result object are built
FuseStep(p) ==
    /\ run[p].pc = "batch"
    /\ run[p].batch_num = TotalBatches(run[p].frames_data, BatchSize(run[p].frames_data))
    /\ run' = [run EXCEPT ![p] = [@ EXCEPT !.pc = "persist",
                  !.result_obj = BuildResult(run[p].frame_files, run[p].unique_frame_files,
                                             run[p].frames_data, run[p].all_frame_details,
                                             run[p].all_yolo_detections)]]
    /\ UNCHANGED <<cacheStore, metaStore, indexStore, framesDir, hasYolo, svcCalls>>
    /\ UNCHANGED otherThanRun

\* how the write of analysis.json can end: written, not opened, or opened
\* (and so emptied) with the dump failing part-way
WriteOutcomes == {"written", "not_opened", "truncated"}

\* analysis.json is written; a failure leaves the persist block for its
\* except clause
PersistAnalysis(p) ==
    /\ run[p].pc = "persist"
    /\ \E outcome \in WriteOutcomes :
          /\ cacheStore' = [cacheStore EXCEPT ![run[p].identity] =
                               IF      outcome = "written"   THEN FileWith(run[p].result_obj)
                               ELSE IF outcome = "truncated" THEN CorruptFile
                               ELSE @]
          /\ run' = [run EXCEPT ![p] = [@ EXCEPT
                        !.pc = IF outcome = "written" THEN "persist_meta" ELSE "persist_failed",
                        !.wrote_analysis = (outcome = "written")]]
    /\ UNCHANGED <<metaStore, indexStore, framesDir, hasYolo, svcCalls>>
    /\ UNCHANGED otherThanRun

\* the annotated images and metadata.json are written
PersistMetadata(p) ==
    /\ run[p].pc = "persist_meta"
    /\ \E written \in BOOLEAN :
          /\ metaStore' = IF written THEN [metaStore EXCEPT ![run[p].identity] = p]
                          ELSE metaStore
          /\ run' = [run EXCEPT ![p].pc = IF written THEN "persist_index"
                                          ELSE "persist_failed"]
    /\ UNCHANGED <<cacheStore, indexStore, framesDir, hasYolo, svcCalls>>
    /\ UNCHANGED otherThanRun

\* index.json is read, given the entry of this dataset, and written back
PersistIndex(p) ==
    /\ run[p].pc = "persist_index"
    /\ \E written \in BOOLEAN :
          /\ indexStore' = IF written THEN [indexStore EXCEPT ![run[p].identity] = p]
                           ELSE indexStore
          /\ run' = [run EXCEPT ![p] = [@ EXCEPT
                        !.pc = IF written THEN "return" ELSE "persist_failed",
                        !.wrote_index = written]]
    /\ UNCHANGED <<cacheStore, metaStore, framesDir, hasYolo, svcCalls>>
    /\ UNCHANGED otherThanRun

\* the except clause of the persist block: the failure is reported on stderr
\* and the run goes on to its return
PersistFailed(p) ==
    /\ run[p].pc = "persist_failed"
    /\ run' = [run EXCEPT ![p].pc = "return"]
    /\ UNCHANGED <<cacheStore, metaStore, indexStore, framesDir, hasYolo, svcCalls>>
    /\ UNCHANGED otherThanRun

\* return result_obj
ReturnResult(p) ==
    /\ run[p].pc = "return"
    /\ Return(p, run[p].result_obj, run[p])
    /\ UNCHANGED <<cacheStore, metaStore, indexStore, framesDir, hasYolo, svcCalls>>
    /\ UNCHANGED otherThanRun

\* the steps of the outer try block that an exception can leave (os.makedirs,
\* os.listdir, a write to stderr); the persist block holds its own, all but
\* one raised by the write to stderr of its except clause
TryBlockSteps == {"cache", "list", "sample", "load", "detect", "batch", "persist_failed"}

\* `except Exception as e`: any other exception ends the run with an error
Unexpected(p) ==
    /\ run[p].pc \in TryBlockSteps
    /\ Raise(p, "other", run[p])
    /\ UNCHANGED <<cacheStore, metaStore, indexStore, framesDir, hasYolo, svcCalls>>
    /\ UNCHANGED otherThanRun

\* the environment: frames are added to or removed from the frame directory
\* between two runs (a run lists the directory once)
FramesChange ==
    /\ \A p \in Runs : ~Active(p)
    /\ \E p \in Runs : run[p].pc = "done"
    /\ \E p \in Runs : run[p].pc = "idle"
    /\ \E n \in 0..MaxCacheDirFrames : n # framesDir /\ framesDir' = n
    /\ UNCHANGED <<cacheStore, metaStore, indexStore, hasYolo, run, svcCalls>>
    /\ UNCHANGED otherThanRun

\* a run that starts while no other run is under way
StartRunAlone(p) ==
    /\ \A q \in Runs \ {p} : ~Active(q)
    /\ StartRun(p)

RunsOff ==
    /\ run = [p \in Runs |-> OffRun]
    /\ svcCalls = [p \in Runs |-> <<>>]
    /\ cacheStore = [d \in Identities |-> AbsentFile]
    /\ metaStore = [d \in Identities |-> "none"]
    /\ indexStore = [d \in Identities |-> "none"]
    /\ framesDir = 0
    /\ hasYolo = FALSE

\* one run; the dataset directory is new or holds the unreadable analysis.json
\* of an earlier failed write
RunInit ==
    /\ run = [p \in Runs |-> IF p = "run1" THEN IdleRun ELSE OffRun]
    /\ svcCalls = [p \in Runs |-> <<>>]
    /\ \E file \in {AbsentFile, CorruptFile} : cacheStore = [d \in Identities |-> file]
    /\ metaStore = [d \in Identities |-> "none"]
    /\ indexStore = [d \in Identities |-> "none"]
    /\ framesDir \in 0..MaxDirFrames
    /\ hasYolo \in BOOLEAN

\* two runs at the same time on new dataset directories
RaceInit ==
    /\ run = [p \in Runs |-> IdleRun]
    /\ svcCalls = [p \in Runs |-> <<>>]
    /\ cacheStore = [d \in Identities |-> AbsentFile]
    /\ metaStore = [d \in Identities |-> "none"]
    /\ indexStore = [d \in Identities |-> "none"]
    /\ framesDir \in RaceDirFrames
    /\ hasYolo = FALSE

\* two runs, one after the other, on new dataset directories
CacheInit ==
    /\ run = [p \in Runs |-> IdleRun]
    /\ svcCalls = [p \in Runs |-> <<>>]
    /\ cacheStore = [d \in Identities |-> AbsentFile]
    /\ metaStore = [d \in Identities |-> "none"]
    /\ indexStore = [d \in Identities |-> "none"]
    /\ framesDir \in 0..MaxCacheDirFrames
    /\ hasYolo = TRUE

-----------------------------------------------------------------------------
(* Specifications *)

\* one analysis run
Init == RunInit /\ SamplerOff /\ DedupOff /\ HazardOff /\ MitigationOff /\ GridOff /\ SimilarityOff /\ ExtractOff /\ SeverityOff
Next ==
    \E p \in Runs :
        \/ StartRun(p)
        \/ CacheLookup(p)
        \/ ListFrames(p)
        \/ SampleFrames(p)
        \/ LoadStep(p)
        \/ DetectStep(p)
        \/ SubmitBatch(p)
        \/ FuseStep(p)
        \/ PersistAnalysis(p)
        \/ PersistMetadata(p)
        \/ PersistIndex(p)
        \/ PersistFailed(p)
        \/ ReturnResult(p)
        \/ Unexpected(p)
Spec == Init /\ [][Next]_vars

\* runs one after the other on shared dataset directories, the frame
\* directory changing under them
InitCache == CacheInit /\ SamplerOff /\ DedupOff /\ HazardOff /\ MitigationOff /\ GridOff /\ SimilarityOff /\ ExtractOff /\ SeverityOff
NextCache ==
    \/ FramesChange
    \/ \E p \in Runs :
        \/ StartRunAlone(p)
        \/ CacheLookup(p)
        \/ ListFrames(p)
        \/ SampleFrames(p)
        \/ LoadStep(p)
        \/ DetectStep(p)
        \/ SubmitBatch(p)
        \/ FuseStep(p)
        \/ PersistAnalysis(p)
        \/ PersistMetadata(p)
        \/ PersistIndex(p)
        \/ PersistFailed(p)
        \/ ReturnResult(p)
        \/ Unexpected(p)
SpecCache == InitCache /\ [][NextCache]_vars

\* one call of filter_unique_frames
InitSampler == SamplerInit /\ DedupOff /\ HazardOff /\ MitigationOff /\ RunsOff /\ GridOff /\ SimilarityOff /\ ExtractOff /\ SeverityOff
NextSampler ==
    \/ FilterEmpty
    \/ FilterStart
    \/ FilterCandidate
    \/ FilterRaise
    \/ FilterReturn
SpecSampler == InitSampler /\ [][NextSampler]_vars

\* one call of remove_duplicate_detections
InitDedup == DedupInit /\ SamplerOff /\ HazardOff /\ MitigationOff /\ RunsOff /\ GridOff /\ SimilarityOff /\ ExtractOff /\ SeverityOff
NextDedup == DedupCall
SpecDedup == InitDedup /\ [][NextDedup]_vars

\* one call of is_critical_safety_hazard
InitHazard == HazardInit /\ SamplerOff /\ DedupOff /\ MitigationOff /\ RunsOff /\ GridOff /\ SimilarityOff /\ ExtractOff /\ SeverityOff
NextHazard == HazardCall
SpecHazard == InitHazard /\ [][NextHazard]_vars

\* one call of generate_mitigation_strategies
InitMitigation == MitigationInit /\ SamplerOff /\ DedupOff /\ HazardOff /\ RunsOff /\ GridOff /\ SimilarityOff /\ ExtractOff /\ SeverityOff
NextMitigation == MitigationCall
SpecMitigation == InitMitigation /\ [][NextMitigation]_vars


\* one call of convert_grid_cells_to_bounding_box
InitGrid == GridInit /\ SamplerOff /\ DedupOff /\ HazardOff /\ MitigationOff /\ RunsOff /\ SimilarityOff /\ ExtractOff /\ SeverityOff
NextGrid == GridCall
SpecGrid == InitGrid /\ [][NextGrid]_vars

\* one call of a similarity scorer
InitSimilarity == SimilarityInit /\ SamplerOff /\ DedupOff /\ HazardOff /\ MitigationOff /\ RunsOff /\ GridOff /\ ExtractOff /\ SeverityOff
NextSimilarity == SimilarityCall
SpecSimilarity == InitSimilarity /\ [][NextSimilarity]_vars

\* one extraction, then the listing of its files by the analyzer
InitExtract == ExtractInit /\ SamplerOff /\ DedupOff /\ HazardOff /\ MitigationOff /\ RunsOff /\ GridOff /\ SimilarityOff /\ SeverityOff
NextExtract ==
    \/ ExtractOpen
    \/ ExtractCandidate
    \/ ExtractRaise
    \/ ExtractReturn
    \/ ListFrameFiles
SpecExtract == InitExtract /\ [][NextExtract]_vars

\* one call of assess_hazard_severity
InitSeverity == SeverityInit /\ SamplerOff /\ DedupOff /\ HazardOff /\ MitigationOff /\ RunsOff /\ GridOff /\ SimilarityOff /\ ExtractOff
NextSeverity == SeverityCall
SpecSeverity == InitSeverity /\ [][NextSeverity]_vars

\* two runs that may overlap, on shared dataset directories
InitRace == RaceInit /\ SamplerOff /\ DedupOff /\ HazardOff /\ MitigationOff /\ GridOff /\ SimilarityOff /\ ExtractOff /\ SeverityOff
SpecRace == InitRace /\ [][Next]_vars

-----------------------------------------------------------------------------
(* Properties *)

\* x is an element of the list
InList(list, x) == \E k \in 1..Len(list) : list[k] = x

\* C1: for a non-empty frame list the sampler's result contains the first
\* input frame and has at most 12 entries, on the primary path and on the
\* fallback path alike
C1_FirstFrameAndCap ==
    (sPc = "done" /\ sFrames > 0) =>
        /\ InList(sResult, FrameFiles(sFrames)[1])
        /\ Len(sResult) <= 12

\* the loop retained more than 12 frames and the additional sampling ran
C1_Witness ==
    /\ sPc = "done" /\ sPath = "primary"
    /\ Len(sUnique) > 12
    /\ Len(sResult) = 12
    /\ sResult[1] = 0

\* C8: of two detections of the same class whose centres are closer than 0.1,
\* exactly one survives, and it is the one with the higher confidence
C8_CloseSameClassPair ==
    (/\ dPc = "done"
     /\ Len(dInput) = 2
     /\ dInput[1].class_name = dInput[2].class_name
     /\ (CenterX(dInput[1].bbox) - CenterX(dInput[2].bbox))
            * (CenterX(dInput[1].bbox) - CenterX(dInput[2].bbox))
        + (CenterY(dInput[1].bbox) - CenterY(dInput[2].bbox))
            * (CenterY(dInput[1].bbox) - CenterY(dInput[2].bbox)) < 100 * 100)
    => /\ Len(dOutput) = 1
       /\ dOutput[1] \in {dInput[1], dInput[2]}
       /\ dOutput[1].confidence >= dInput[1].confidence
       /\ dOutput[1].confidence >= dInput[2].confidence

\* the second of a close same-class pair is the stronger one and replaced the first
C8_Witness ==
    /\ dPc = "done"
    /\ Len(dInput) = 2
    /\ dInput[1].class_name = dInput[2].class_name
    /\ dInput[1].bbox # dInput[2].bbox
    /\ CloserThan(dInput[1].bbox, dInput[2].bbox, DistanceThreshold)
    /\ dInput[2].confidence > dInput[1].confidence
    /\ dOutput = <<dInput[2]>>

\* the detections of one class, in list order
OfClass(detections, class_name) ==
    LET Keep(d) == d.class_name = class_name IN SelectSeq(detections, Keep)

\* the classes of the list are pairwise distinct
DistinctClasses(detections) ==
    \A i, j \in 1..Len(detections) :
        i # j => detections[i].class_name # detections[j].class_name

\* C9: deduplication never merges across classes: the survivors of a class are
\* those of that class's detections deduplicated alone, whatever else is in
\* the list, and a list of pairwise distinct classes comes back unchanged
C9_NoMergeAcrossClasses ==
    dPc = "done" =>
        /\ \A c \in DedupClasses :
              OfClass(dOutput, c) = remove_duplicate_detections(OfClass(dInput, c))
        /\ DistinctClasses(dInput) => dOutput = dInput

\* two detections of different classes on the same spot both survive
C9_Witness ==
    /\ dPc = "done"
    /\ Len(dInput) = 2
    /\ dInput[1].class_name # dInput[2].class_name
    /\ dInput[1].bbox = dInput[2].bbox
    /\ dOutput = dInput

\* C10: a detection whose confidence is below max(base floor, adaptive
\* threshold of its class) is never a hazard, whatever its class and position
C10_BelowThresholdNeverHazard ==
    (/\ hPc = "done"
     /\ \/ hConf < hBase
        \/ hConf < get_adaptive_confidence_threshold(hClass))
    => ~hHazard

\* a critical-class object in the pathway, above the caller's floor but below
\* its class tier, is turned down
C10_Witness ==
    /\ hPc = "done"
    /\ InCriticalCategory(Lower(hClass)) /\ InPathway(hBox)
    /\ hConf >= hBase
    /\ hConf < get_adaptive_confidence_threshold(hClass)
    /\ ~hHazard

\* the records of a mitigation list that stand for a bucket: all but the two
\* flag records and the fallback
BucketRecordsOf(mitigations) ==
    LET Keep(m) == m.type \notin {"ai_detected_parking_violation",
                                  "ai_detected_waste_debris", "preventive_maintenance"}
    IN  SelectSeq(mitigations, Keep)

\* the buckets that hold at least one object
FilledBuckets(detected_objects) ==
    {k \in 1..Len(BucketNames) : Len(BucketMembers(detected_objects, BucketNames[k])) > 0}

\* C6: each of the eight buckets that is non-empty yields exactly one
\* mitigation record, an empty bucket none: the list holds as many bucket
\* records as there are non-empty buckets
C6_OneRecordPerFilledBucket ==
    mPc = "done" => Len(BucketRecordsOf(mOut)) = Cardinality(FilledBuckets(mObjects))

HasFallback(mitigations) ==
    \E k \in 1..Len(mitigations) : mitigations[k].type = "preventive_maintenance"

\* the report of a run whose n frames all loaded, whose batches were all
\* answered without an issue, and whose detector found nothing
QuietReport(n) ==
    LET unique_frame_files == FrameFiles(n)
        frames_data        == LoadFrames(unique_frame_files, {})
    IN  BuildResult(n, unique_frame_files, frames_data,
                    ReplyDetails(frames_data, 0, "none"), [k \in 1..n |-> <<>>])

\* C7: the preventive_maintenance record is emitted exactly when all eight
\* buckets are empty and both flags are false, and then it is the only record;
\* so a report with no detection and no annotation issue has both flags false
\* and that single record
C7_FallbackIffNothingFound ==
    /\ mPc = "done" =>
          /\ HasFallback(mOut) <=>
                /\ FilledBuckets(mObjects) = {}
                /\ ~mFlags.incorrectParking
                /\ ~mFlags.wasteMaterial
          /\ HasFallback(mOut) => Len(mOut) = 1
    /\ \A n \in 1..2 :
          /\ ~QuietReport(n).analysis.incorrectParking
          /\ ~QuietReport(n).analysis.wasteMaterial
          /\ Len(QuietReport(n).analysis.mitigationStrategies) = 1
          /\ HasFallback(QuietReport(n).analysis.mitigationStrategies)

\* objects were detected, none flagged as a hazard, both flags false: the
\* fallback is the only record
C7_Witness ==
    /\ mPc = "done"
    /\ Len(mObjects) > 0
    /\ ~mFlags.incorrectParking /\ ~mFlags.wasteMaterial
    /\ Len(mOut) = 1
    /\ mOut[1].type = "preventive_maintenance"

\* the steps between the end of the batch loop and the return of the report
AfterBatches == {"persist", "persist_meta", "persist_index", "persist_failed", "return"}

\* the run got through the batch loop and has not returned yet
PastBatches(p) == run[p].pc \in AfterBatches

\* the run returned a report it built itself
ReturnedOwnReport(p) ==
    run[p].pc = "done" /\ run[p].returned.success /\ ~run[p].via_cache

\* the file names of a list of loaded frames
FilenamesOf(frames) == [k \in 1..Len(frames) |-> frames[k].filename]

\* C2: a run that finds a readable stored record of its dataset returns
\* exactly that stored result, whatever the frame directory holds now, and
\* such a run does no sampling, no detection and no annotation-service call
C2_CacheHitReturnsStored ==
    /\ [](\A q \in Runs :
            (run[q].via_cache \/ run[q].pc = "cache") =>
                /\ svcCalls[q] = <<>>
                /\ run[q].unique_frame_files = <<>>
                /\ run[q].frames_data = <<>>
                /\ run[q].all_yolo_detections = <<>>)
    /\ [][\A q \in Runs :
            (CacheLookup(q) /\ cacheStore[run[q].identity].state = "ok") =>
                /\ run'[q].pc = "done"
                /\ run'[q].via_cache
                /\ run'[q].returned = cacheStore[run[q].identity].content
                /\ svcCalls'[q] = <<>>]_vars

\* a second run returned what the first one stored, although the frame
\* directory no longer holds what the first one saw
C2_Witness ==
    \E p, q \in Runs :
        /\ run[p].wrote_analysis
        /\ run[q].order > run[p].order
        /\ run[q].pc = "done" /\ run[q].via_cache
        /\ run[q].identity = run[p].identity
        /\ run[q].returned = cacheStore[run[q].identity].content
        /\ run[q].returned.success
        /\ framesDir # run[q].returned.total_frames
        /\ svcCalls[p] # <<>> /\ svcCalls[q] = <<>>

\* a dict with `success`, and with the analysis or with an error message
Structured(value) ==
    IF value.success
    THEN "analysis" \in DOMAIN value
    ELSE "error" \in DOMAIN value /\ value.error # ""

\* C3: no exception reaches the caller, and every run that ends returns a
\* structured result: success with the analysis, or failure with an error
C3_StructuredResult ==
    \A p \in Runs :
        /\ run[p].pc # "raised"
        /\ run[p].pc = "done" => Structured(run[p].returned)

\* every batch failed and the report could not be stored: the run still
\* returns a success report
C3_Witness ==
    \E p \in Runs :
        /\ run[p].pc = "done"
        /\ svcCalls[p] # <<>>
        /\ \A k \in 1..Len(svcCalls[p]) : ~svcCalls[p][k].success
        /\ ~run[p].wrote_analysis
        /\ run[p].returned.success
        /\ run[p].returned.analysis.frameDetails = <<>>

\* the frame details of the calls that succeeded, in call order
RECURSIVE DetailsOfSuccessful(_)
DetailsOfSuccessful(calls) ==
    IF calls = <<>> THEN <<>>
    ELSE (IF Head(calls).success THEN Head(calls).frameDetails ELSE <<>>)
         \o DetailsOfSuccessful(Tail(calls))

\* the file names submitted by the calls, in call order
SubmittedFilenames(calls) == Flatten([k \in 1..Len(calls) |-> calls[k].filenames])

\* C4: the batches are submitted in increasing order, each frame in exactly
\* one of them; a failed batch is neither retried nor does it stop the later
\* ones; the accumulated frame details are those of the successful batches,
\* concatenated in batch order
C4_BatchesOnceInOrder ==
    \A p \in Runs :
        LET calls == svcCalls[p] IN
        /\ \A k \in 1..Len(calls) : calls[k].batch_num = k - 1
        /\ \A k \in 1..Len(calls) : calls[k].filenames # <<>>
        /\ run[p].pc = "batch" =>
              /\ Len(calls) = run[p].batch_num
              /\ Len(SubmittedFilenames(calls)) <= Len(run[p].frames_data)
              /\ SubmittedFilenames(calls)
                    = SubSeq(FilenamesOf(run[p].frames_data), 1, Len(SubmittedFilenames(calls)))
              /\ run[p].all_frame_details = DetailsOfSuccessful(calls)
        /\ PastBatches(p) =>
              /\ SubmittedFilenames(calls) = FilenamesOf(run[p].frames_data)
              /\ run[p].all_frame_details = DetailsOfSuccessful(calls)
              /\ run[p].result_obj.analysis.frameDetails = DetailsOfSuccessful(calls)
        /\ ReturnedOwnReport(p) =>
              /\ Len(SubmittedFilenames(calls)) = run[p].returned.frames_analyzed
              /\ run[p].returned.analysis.frameDetails = DetailsOfSuccessful(calls)

\* the first batch failed, the next one was submitted and answered, and the
\* report holds the details of the answered one only
C4_Witness ==
    \E p \in Runs :
        /\ run[p].pc = "done" /\ run[p].returned.success
        /\ Len(svcCalls[p]) = 2
        /\ Len(svcCalls[p][1].filenames) = 2
        /\ ~svcCalls[p][1].success
        /\ svcCalls[p][2].success
        /\ run[p].returned.analysis.frameDetails = svcCalls[p][2].frameDetails

\* C5 as claimed: a timeout of the annotation-service call ends the whole run
\* with the timeout failure
C5_TimeoutEndsRun ==
    \A p \in Runs :
        (run[p].pc = "done" /\ run[p].timed_out) =>
            /\ ~run[p].returned.success
            /\ run[p].returned.error = TopLevelError("timeout")

\* C5: a timeout of the annotation-service call loses that batch only: the
\* run never returns the timeout failure, the batches after it are still
\* submitted, and a run that gets through the batch loop returns its report
C5_TimeoutLosesOnlyItsBatch ==
    \A p \in Runs :
        /\ run[p].pc = "done" => run[p].returned # Failure(TopLevelError("timeout"))
        /\ (run[p].timed_out /\ PastBatches(p)) =>
              Len(svcCalls[p]) = TotalBatches(run[p].frames_data, BatchSize(run[p].frames_data))
        /\ (run[p].timed_out /\ ReturnedOwnReport(p)) =>
              Len(SubmittedFilenames(svcCalls[p])) = run[p].returned.frames_analyzed
        /\ (run[p].timed_out /\ run[p].pc = "done" /\ ~run[p].returned.success) =>
              run[p].returned.error = TopLevelError("other")

\* the first call, the only one that failed, timed out; a second one
\* followed and the run returned a success report with its details
C5_Witness ==
    \E p \in Runs :
        /\ run[p].pc = "done"
        /\ run[p].timed_out
        /\ Len(svcCalls[p]) = 2
        /\ ~svcCalls[p][1].success
        /\ svcCalls[p][2].success
        /\ run[p].returned.success
        /\ run[p].returned.analysis.frameDetails # <<>>

\* the detector reports a vehicle at confidence 0.5 in the centre of the
\* frame, size 0.2 x 0.2, on the frame with this file name
VehicleSeenOn(filename) ==
    /\ hasYolo
    /\ \E k \in 1..Len(SceneObjects(filename)) :
          /\ SceneObjects(filename)[k].class_name = N_car
          /\ SceneObjects(filename)[k].confidence = 50
          /\ SceneObjects(filename)[k].bbox = Box(400, 400, 200, 200)

\* the report has a frame object for the file whose boxes hold the vehicle
\* with severity critical and priority 1
VehicleBoxOn(report, filename) ==
    \E i \in 1..Len(report.analysis.frames) :
        /\ report.analysis.frames[i].filename = filename
        /\ \E j \in 1..Len(report.analysis.frames[i].boundingBoxes) :
              LET box == report.analysis.frames[i].boundingBoxes[j] IN
              /\ box.source = "yolo_detection"
              /\ box.class_name = N_car
              /\ box.bbox = Box(400, 400, 200, 200)
              /\ box.severity = "critical"
              /\ box.priority = 1

\* C11: a vehicle detected at confidence 0.5 in the centre of a frame whose
\* annotation batch succeeded is among that frame's fused boxes with severity
\* critical and priority 1, and the run's mitigation list has a
\* vehicle_parking_violation record
C11_VehicleScenario ==
    \A p \in Runs :
        ReturnedOwnReport(p) =>
            \A k \in 1..Len(svcCalls[p]) :
                \A j \in 1..Len(svcCalls[p][k].filenames) :
                    (svcCalls[p][k].success /\ VehicleSeenOn(svcCalls[p][k].filenames[j])) =>
                        /\ VehicleBoxOn(run[p].returned, svcCalls[p][k].filenames[j])
                        /\ \E m \in 1..Len(run[p].returned.analysis.mitigationStrategies) :
                              run[p].returned.analysis.mitigationStrategies[m].type
                                  = "vehicle_parking_violation"

-----------------------------------------------------------------------------
(* convert_grid_cells_to_bounding_box *)

\* a box inside the frame with sides of at least 0.05
ValidBox(box) ==
    /\ box.x >= 0
    /\ box.y >= 0
    /\ box.w >= MinBoxSide
    /\ box.h >= MinBoxSide
    /\ box.x + box.w <= FullSide
    /\ box.y + box.h <= FullSide

\* C12: whatever the input (None, blank, not a string, unknown row letter,
\* column outside 1-4, non-numeric column, valid and invalid tokens mixed),
\* the conversion returns a box with x >= 0, y >= 0, w >= 0.05, h >= 0.05,
\* x+w <= 1 and y+h <= 1, and when no token names a cell the box is exactly
\* the default box {0.1, 0.1, 0.2, 0.2}.
C12_GridLocatorTotal ==
    gPc = "done" =>
        /\ ValidBox(gOutput)
        /\ NamedCells(gTokens) = {} => gOutput = DefaultBox

\* a descriptor that mixes a cell with tokens that are none has been
\* converted, and so has one with no cell at all
C12_Witness ==
    /\ gPc = "done"
    /\ gInput.type = "str"
    /\ Len(gTokens) = 3
    /\ NamedCells(gTokens) = {}
    /\ gTokens[1] # gTokens[2]
    /\ gOutput = DefaultBox

\* the bounding rectangle of a non-empty set of cells of the 4x3 grid
BoundingRectangle(cells) ==
    LET rows == {c[1] : c \in cells}
        cols == {c[2] : c \in cells}
        top    == CHOOSE r \in rows : \A q \in rows : r <= q
        bottom == CHOOSE r \in rows : \A q \in rows : r >= q
        left   == CHOOSE c \in cols : \A q \in cols : c <= q
        right  == CHOOSE c \in cols : \A q \in cols : c >= q
    IN  [x |-> left * CellWidth, y |-> top * CellHeight,
         w |-> (right - left + 1) * CellWidth, h |-> (bottom - top + 1) * CellHeight]

\* box a lies inside box b
Inside(a, b) ==
    /\ b.x <= a.x
    /\ b.y <= a.y
    /\ a.x + a.w <= b.x + b.w
    /\ a.y + a.h <= b.y + b.h

\* the tokens in the opposite order
Reversed(s) == [k \in 1..Len(s) |-> s[Len(s) + 1 - k]]

\* C13: for a descriptor with at least one valid cell the box is exactly the
\* bounding rectangle of the named valid cells; the same tokens in another
\* order give the same box, and a descriptor with fewer of the tokens gives
\* a box inside it. "A1-C4" gives the full frame and a single valid cell
\* gives that one cell, 1/4 wide and 1/3 high.
C13_GridLocatorBoundingRectangle ==
    (gPc = "done" /\ NamedCells(gTokens) # {}) =>
        /\ gOutput = BoundingRectangle(NamedCells(gTokens))
        /\ convert_grid_cells_to_bounding_box(Str(Joined(Reversed(gTokens), Reversed(gSeps))))
              = gOutput
        /\ \A n \in 1..Len(gTokens) :
              NamedCells(SubSeq(gTokens, 1, n)) # {} =>
                 Inside(convert_grid_cells_to_bounding_box(
                            Str(Joined(SubSeq(gTokens, 1, n), SubSeq(gSeps, 1, n - 1)))),
                        gOutput)
        /\ (gTokens = <<1, 6>> /\ gSeps = <<"-">>) =>
              gOutput = [x |-> 0, y |-> 0, w |-> FullSide, h |-> FullSide]
        /\ Cardinality(NamedCells(gTokens)) = 1 =>
              (gOutput.w = CellWidth /\ gOutput.h = CellHeight)

\* "A1-C4" has been converted to the full frame
C13_Witness ==
    /\ gPc = "done"
    /\ gInput = Str(<<"A", "1", "-", "C", "4">>)
    /\ gOutput = [x |-> 0, y |-> 0, w |-> FullSide, h |-> FullSide]

-----------------------------------------------------------------------------
(* The similarity scorers *)

\* a frame has been compared with itself
SelfComparison == kPc = "done" /\ kCall.frame1 = kCall.frame2

\* C14: comparing a frame with itself (one that can be read, the scorer
\* computing its scores) gives the verdict "similar" for every threshold up
\* to and including the maximum score the scorer can attain.
C14_SelfSimilarUpToMaxScore ==
    (SelfComparison /\ kCall.frame1.readable /\ ~kCall.raises /\ kCall.threshold <= MaxScore)
        => kVerdict

\* C14, as the code has it: a frame that can be read, compared with itself
\* by a scorer that computes its scores, is "similar" for every threshold
\* strictly below the maximum score and "not similar" at a threshold equal
\* to it, the verdict being max(scores) > threshold; a frame that cannot be
\* read is "not similar" to itself at every threshold.
C14_SelfSimilarBelowMaxScore ==
    SelfComparison =>
        /\ (kCall.frame1.readable /\ ~kCall.raises) =>
              (kVerdict <=> kCall.threshold < MaxScore)
        /\ ~kCall.frame1.readable => ~kVerdict

\* a readable frame has been compared with itself at a threshold equal to
\* the maximum score
C14_Witness ==
    /\ SelfComparison
    /\ kCall.frame1.readable
    /\ ~kCall.raises
    /\ kCall.threshold = MaxScore
    /\ ~kVerdict

-----------------------------------------------------------------------------
(* The extraction-time sampler *)

\* the latest candidate passed the quality gate and was judged similar to
\* the last kept frame, its motion not above the threshold
LastJudgedSimilar ==
    /\ eLast.time # NoFrame
    /\ eLast.ret /\ eLast.quality /\ eLast.written
    /\ JudgedSimilar(IF eLast.first THEN NoFrame ELSE 0, eLast.motion_score, eLast.is_similar)

\* C15: in a run of candidates each judged similar to the last kept frame,
\* every third one is kept and the two before it are skipped, for the whole
\* length of the run and for every later run of similar frames.
C15_EveryThirdSimilarKept ==
    LastJudgedSimilar => (eLast.kept <=> eRun % 3 = 0)

\* C16: a candidate that passes the quality gate is kept whenever no frame
\* has been kept yet and whenever its motion score against the last kept
\* frame is above the motion threshold, whatever the similarity verdict and
\* the skip counter, provided the frame can be written.
C16_FirstAndMotionKept ==
    (eLast.time # NoFrame /\ eLast.ret /\ eLast.quality /\ eLast.written
        /\ (eLast.first \/ eLast.motion_score > MotionThreshold))
    => /\ eLast.kept
       /\ eFrames # <<>>
       /\ eFrames[Len(eFrames)].time = eLast.time
       /\ eLastSaved = eLast.time

\* a candidate judged similar, with motion above the threshold and with the
\* skip counter at 1, has been kept
C16_Witness ==
    /\ eLast.time # NoFrame /\ eLast.ret /\ eLast.quality /\ eLast.written
    /\ ~eLast.first
    /\ eLast.motion_score > MotionThreshold
    /\ eLast.is_similar
    /\ eLast.skipped_frames = 1
    /\ eLast.kept

\* C20: the analyzer lists the frames named frame_<index>_<MMmSSs>.jpg in
\* increasing frame index order, however many there are.
C20_ListedInIndexOrder ==
    ePc = "listed" =>
        \A i, j \in 1..Len(eListed) :
            i < j => eListed[i].frame_number < eListed[j].frame_number

-----------------------------------------------------------------------------
(* The post-extraction sampler: cap, fallback and retention window *)

\* the primary pass has returned after retaining more than the cap
PrimaryOverCap ==
    sPc = "done" /\ sPath = "primary" /\ Len(sUnique) > MaxSampledFrames

\* C17: whenever the primary pass retains more than 12 frames, what is
\* returned is a uniform stride subsample of the retained list that reaches
\* the end of it (no stride point is dropped), of at most 12 frames, and not
\* the first frames of the retained list with the tail dropped.
C17_CapIsSpanningStride ==
    PrimaryOverCap =>
        /\ Len(sResult) <= MaxSampledFrames
        /\ \E step \in 1..Len(sUnique) : sResult = Stride(sUnique, step)
        /\ sResult # Take(sUnique, Len(sResult))

\* C18: when a similarity computation failed during the filtering, the
\* sampler returns the uniform stride sample of the except block (all frames
\* for up to 5, every 3rd for up to 15, every 5th for up to 30, else every
\* max(4, total/12)-th, at most 12), not the result of the primary pass.
C18_FailedComparisonFallsBack ==
    (sPc = "done" /\ sFailed) => sResult = FallbackSample(FrameFiles(sFrames))

\* the latest candidate has been judged
CandidateJudged == sPc = "loop" /\ sI > 1 /\ sPrev \in Verdicts

\* the latest candidate (frame_files[sI - 1]) has been retained
CandidateRetained ==
    /\ sLast = sI - 1
    /\ sUnique[Len(sUnique)] = FrameFiles(sFrames)[sI]

\* the retained frames before the latest candidate was judged
RetainedBefore ==
    IF CandidateRetained THEN SubSeq(sUnique, 1, Len(sUnique) - 1) ELSE sUnique

\* the frames the candidate was compared with are the most recently retained
\* ones, at most 3 of them, oldest first
ComparedWithinWindow ==
    /\ Len(sCompared) <= RecentWindow
    /\ Len(sCompared) <= Len(RetainedBefore)
    /\ \A k \in 1..Len(sCompared) :
          sCompared[k] = RetainedBefore[Max(0, Len(RetainedBefore) - RecentWindow) + k]

\* C19: each candidate is compared only with the window of the at most 3
\* most recently retained frames, and it is retained at the first comparison
\* in that window that is non-similar: a candidate with a non-similar
\* comparison is retained, after that one comparison.
C19_RetainedOnFirstNonSimilar ==
    CandidateJudged =>
        /\ ComparedWithinWindow
        /\ (sPrev = "unique" \/ Len(sCompared) >= 2) =>
              (CandidateRetained /\ Len(sCompared) = 1)

\* C19, as the code has it: each candidate is compared only with the window
\* of the at most 3 most recently retained frames, oldest first; the
\* comparisons stop at the first one that is similar and the candidate is
\* then dropped; the candidate is retained only when every comparison of the
\* whole window is non-similar.
C19_RetainedWhenWholeWindowDiffers ==
    CandidateJudged =>
        /\ ComparedWithinWindow
        /\ sCompared # <<>>
        /\ CandidateRetained <=> sPrev = "unique"
        /\ CandidateRetained => Len(sCompared) = Min(RecentWindow, Len(RetainedBefore))

\* a candidate whose first comparison was non-similar and whose second was
\* similar has been dropped, with 4 frames retained before it
C19_Witness ==
    /\ CandidateJudged
    /\ sPrev = "similar"
    /\ Len(sCompared) = 2
    /\ Len(sUnique) = 4
    /\ ~CandidateRetained

-----------------------------------------------------------------------------
(* Fusion: frames, detections and flags of the report *)

\* the file names of the frames of the batches that succeeded, in call order
RECURSIVE FilenamesOfSuccessful(_)
FilenamesOfSuccessful(calls) ==
    IF calls = <<>> THEN <<>>
    ELSE (IF Head(calls).success THEN Head(calls).filenames ELSE <<>>)
         \o FilenamesOfSuccessful(Tail(calls))

\* C21: a frame that cannot be read is left out and the run goes on; every
\* other selected frame whose batch succeeded, the service numbering the
\* frames from the batch start index, has its frame object in the report,
\* under its own file name and in the order of the answers.
C21_LoadedFramesAllReported ==
    \A p \in Runs :
        ReturnedOwnReport(p) =>
            FilenamesOf(run[p].returned.analysis.frames)
                = FilenamesOfSuccessful(svcCalls[p])

\* the boxes of a frame object that come from the detector
DetectorBoxes(frame_obj) ==
    LET FromDetector(box) == box.source = "yolo_detection"
    IN  SelectSeq(frame_obj.boundingBoxes, FromDetector)

\* C22: for every frame object of the report, the detector boxes and the
\* detection count are those of the detections computed on the frame of
\* that file name, whichever batches succeeded or failed.
C22_FrameHasOwnDetections ==
    \A p \in Runs :
        ReturnedOwnReport(p) =>
            \A i \in 1..Len(run[p].returned.analysis.frames) :
                LET frame_obj == run[p].returned.analysis.frames[i]
                    own == detect_objects_with_yolo(frame_obj.filename, hasYolo)
                IN  /\ frame_obj.yolo_detections = Len(own)
                    /\ DetectorBoxes(frame_obj) = HazardBoxesOf(own)

\* some safety issue of the frame details has a type in types
IssueReturned(frame_details, types) ==
    \E k \in 1..Len(frame_details) :
        \E j \in 1..Len(frame_details[k].safetyIssues) :
            frame_details[k].safetyIssues[j].type \in types

\* the detections of all frames submitted by the run, in order
DetectionsOfRun(p) ==
    LET names == SubmittedFilenames(svcCalls[p])
    IN  Flatten([k \in 1..Len(names) |-> detect_objects_with_yolo(names[k], hasYolo)])

\* C26: incorrectParking is true exactly when some safety issue of the frame
\* details returned by the successful batches has type parking or vehicle,
\* wasteMaterial exactly when one has type waste or debris, and the
\* mitigation records are those synthesised with the reported flags.
C26_FlagsFromReturnedIssues ==
    \A p \in Runs :
        ReturnedOwnReport(p) =>
            LET analysis == run[p].returned.analysis IN
            /\ analysis.incorrectParking
                  <=> IssueReturned(DetailsOfSuccessful(svcCalls[p]), {"parking", "vehicle"})
            /\ analysis.wasteMaterial
                  <=> IssueReturned(DetailsOfSuccessful(svcCalls[p]), {"waste", "debris"})
            /\ analysis.mitigationStrategies
                  = generate_mitigation_strategies(DetectionsOfRun(p),
                        [incorrectParking |-> analysis.incorrectParking,
                         wasteMaterial    |-> analysis.wasteMaterial])

-----------------------------------------------------------------------------
(* Adaptive threshold tiers and hazard keyword groups *)

\* the tier value the claim gives to a class by its hazard group, 0 for a
\* class of no such group
ClaimedTier(class_lower) ==
    IF AnyIn(HazardVehicles, class_lower) THEN 20
    ELSE IF AnyIn(HazardBlockingFurniture, class_lower)
            \/ AnyIn(HazardLargeContainers, class_lower) THEN 25
    ELSE 0

\* C23: every class of the vehicles hazard group has adaptive threshold 0.20
\* and every class of the blocking-furniture or large-container groups has
\* 0.25, so a detection of such a class with confidence at or above its tier
\* value and the base floor, its centre in the pathway zone, is a hazard.
C23_TiersAgreeWithHazardGroups ==
    (hPc = "done" /\ ClaimedTier(Lower(hClass)) # 0) =>
        /\ get_adaptive_confidence_threshold(hClass) = ClaimedTier(Lower(hClass))
        /\ (hConf >= ClaimedTier(Lower(hClass)) /\ hConf >= hBase /\ InPathway(hBox))
              => hHazard

-----------------------------------------------------------------------------
(* Severity *)

\* the priority that goes with a severity
PriorityOf(severity) ==
    IF      severity = "critical" THEN 1
    ELSE IF severity = "high"     THEN 2
    ELSE IF severity = "medium"   THEN 3
    ELSE 4

\* the severity the rule of precedence gives
SeverityByPrecedence(class_name, bbox) ==
    LET area == bbox.w * bbox.h
        centre_x == bbox.x + bbox.w \div 2
    IN  IF AnyIn(SeverityVehicleItems, Lower(class_name)) THEN "critical"
        ELSE IF area > 100000 THEN "high"
        ELSE IF centre_x >= 300 /\ centre_x <= 700 /\ area > 50000 THEN "medium"
        ELSE "low"

\* C24: severity is assigned to every detection, with fixed precedence: a
\* vehicle class gives critical; otherwise an area above 10% of the frame
\* gives high; otherwise a centre x in [0.3, 0.7] with an area above 5% gives
\* medium; otherwise low. The priority follows the severity (1, 2, 3, 4) and
\* immediate_action is true exactly for critical and high.
C24_SeverityPrecedence ==
    vPc = "done" =>
        /\ vOut.severity \in {"critical", "high", "medium", "low"}
        /\ vOut.severity = SeverityByPrecedence(vClass, vBox)
        /\ vOut.priority = PriorityOf(vOut.severity)
        /\ vOut.immediate_action <=> vOut.severity \in {"critical", "high"}

\* a bus whose box covers 15% of the frame has been given critical, not high
C24_Witness ==
    /\ vPc = "done"
    /\ vClass = N_bus
    /\ vBox.w * vBox.h = 150000
    /\ vOut.severity = "critical"
    /\ vOut.priority = 1
    /\ vOut.immediate_action

-----------------------------------------------------------------------------
(* Order of the mitigation records *)

\* the record types in the order the buckets are declared (equipment and
\* other_hazards have no record type), then the flag records and the fallback
DeclaredOrder ==
    <<"vehicle_parking_violation", "furniture_obstruction",
      "personal_belongings_management", "container_storage_violation",
      "trip_hazard_elimination", "personnel_safety_training",
      "ai_detected_parking_violation", "ai_detected_waste_debris",
      "preventive_maintenance">>

\* the record types in the order vehicles, furniture, containers, trip
\* hazards, personal items, people, then the flag records and the fallback
PriorityOrder ==
    <<"vehicle_parking_violation", "furniture_obstruction",
      "container_storage_violation", "trip_hazard_elimination",
      "personal_belongings_management", "personnel_safety_training",
      "ai_detected_parking_violation", "ai_detected_waste_debris",
      "preventive_maintenance">>

\* the place of a record type in an order, 0 when it is not in it
PlaceIn(order, type) ==
    IF \E k \in 1..Len(order) : order[k] = type
    THEN CHOOSE k \in 1..Len(order) : order[k] = type
    ELSE 0

\* the records of the list follow the order, each type at most once
FollowsOrder(mitigations, order) ==
    /\ \A i \in 1..Len(mitigations) : PlaceIn(order, mitigations[i].type) # 0
    /\ \A i, j \in 1..Len(mitigations) :
           i < j => PlaceIn(order, mitigations[i].type) < PlaceIn(order, mitigations[j].type)

\* C25 as stated: the records of the non-empty buckets appear in bucket
\* declaration order (vehicles, furniture, personal items, containers, trip
\* hazards, equipment, people, other), followed by the parking-flag record,
\* the waste-flag record and the fallback.
C25_DeclarationOrder == mPc = "done" => FollowsOrder(mOut, DeclaredOrder)

\* C25, amended: the records that are emitted appear in the order vehicles,
\* furniture, containers, trip hazards, personal items, people, followed by
\* the parking-flag record, the waste-flag record and the fallback.
C25_PriorityOrder == mPc = "done" => FollowsOrder(mOut, PriorityOrder)

\* a list with a container, a trip hazard and a personal item and the parking
\* flag set: the personal-items record comes after the two others and before
\* the flag record
C25_Witness ==
    /\ mPc = "done"
    /\ mFlags.incorrectParking
    /\ \E i \in 1..Len(mOut) :
          /\ i + 3 <= Len(mOut)
          /\ mOut[i].type = "container_storage_violation"
          /\ mOut[i + 1].type = "trip_hazard_elimination"
          /\ mOut[i + 2].type = "personal_belongings_management"
          /\ mOut[i + 3].type = "ai_detected_parking_violation"

-----------------------------------------------------------------------------
(* The stored record of a dataset *)

\* the run is in the persist block with the analysis of dataset d
PersistsFor(p, d) ==
    /\ run[p].identity = d
    /\ run[p].pc \in {"persist", "persist_meta", "persist_index"}
    /\ ~run[p].via_cache

\* C27: a cache entry is never updated in place: once a readable analysis
\* record exists for a dataset, no later run with that identity modifies the
\* stored analysis, the metadata or the index entry (its cache check returns
\* the record at once); the entry is written only by a run that found no
\* readable record, and then as a whole: analysis.json gets the run's full
\* result (or is left unreadable by a failed write), metadata and index entry
\* are those of the run that wrote the analysis.
C27_NeverUpdatedInPlace ==
    [][\A d \in Identities :
          /\ CacheReadable(cacheStore[d]) => cacheStore'[d] = cacheStore[d]
          /\ \A q \in Runs :
                (run[q].pc = "cache" /\ run[q].identity = d /\ run'[q] # run[q]
                 /\ CacheReadable(cacheStore[d])) =>
                    /\ run'[q].pc \in {"done", "raised"}
                    /\ cacheStore'[d] = cacheStore[d]
                    /\ metaStore'[d] = metaStore[d]
                    /\ indexStore'[d] = indexStore[d]
          /\ cacheStore'[d] # cacheStore[d] =>
                \E p \in Runs :
                    /\ PersistsFor(p, d) /\ run[p].pc = "persist"
                    /\ cacheStore'[d] \in {FileWith(run[p].result_obj), CorruptFile}
          /\ metaStore'[d] # metaStore[d] =>
                \E p \in Runs :
                    /\ PersistsFor(p, d) /\ run[p].wrote_analysis
                    /\ cacheStore[d] = FileWith(run[p].result_obj)
                    /\ metaStore'[d] = p
          /\ indexStore'[d] # indexStore[d] =>
                \E p \in Runs :
                    /\ PersistsFor(p, d) /\ run[p].wrote_analysis
                    /\ cacheStore[d] = FileWith(run[p].result_obj)
                    /\ metaStore[d] = p
                    /\ indexStore'[d] = p]_vars

\* the first run stored analysis, metadata and index entry of a dataset; a
\* later run with the same identity has ended on the cached record and the
\* three are still those of the first run
C27_Witness ==
    \E p, q \in Runs, d \in Identities :
        /\ run[p].pc = "done" /\ run[p].identity = d /\ run[p].wrote_analysis
        /\ run[q].pc = "done" /\ run[q].identity = d /\ run[q].via_cache
        /\ run[q].order > run[p].order
        /\ cacheStore[d] = FileWith(run[p].returned)
        /\ metaStore[d] = p
        /\ indexStore[d] = p

\* the run missed the cache, called the annotation service, and wrote the
\* analysis record and the index entry of dataset d
RacedThrough(p, d) ==
    /\ run[p].identity = d
    /\ run[p].pc \in {"return", "done"}
    /\ ~run[p].via_cache
    /\ svcCalls[p] # <<>>
    /\ run[p].wrote_analysis
    /\ run[p].wrote_index

\* C28: between the cache check and the write there is no mutual exclusion:
\* a run starts, and writes the analysis record and the index entry, whatever
\* another run on the same dataset is doing and whatever is stored, so that
\* two runs on one not-yet-cached dataset can both go the whole way
C28_NoMutualExclusion ==
    \A p \in Runs :
        /\ run[p].pc = "idle" => ENABLED StartRun(p)
        /\ run[p].pc = "cache" => ENABLED CacheLookup(p)
        /\ run[p].pc = "persist" => ENABLED PersistAnalysis(p)
        /\ run[p].pc = "persist_index" => ENABLED PersistIndex(p)

\* both runs missed the cache of the same dataset, both called the annotation
\* service and both wrote the analysis record and the index entry
C28_Witness ==
    \E d \in Identities :
        /\ \A p \in Runs : RacedThrough(p, d)
        /\ \E p \in Runs : cacheStore[d] = FileWith(run[p].returned) /\ indexStore[d] = p

-----------------------------------------------------------------------------
(* The survivors of the deduplication *)

\* two detections of one class whose centres are closer than 0.1
ClosePair(d1, d2) ==
    /\ d1.class_name = d2.class_name
    /\ (CenterX(d1.bbox) - CenterX(d2.bbox)) * (CenterX(d1.bbox) - CenterX(d2.bbox))
       + (CenterY(d1.bbox) - CenterY(d2.bbox)) * (CenterY(d1.bbox) - CenterY(d2.bbox))
       < DistanceThreshold * DistanceThreshold

\* C29: for every input list, of any length and in any arrival order, no two
\* detections in the output have the same class and box centres closer than
\* the proximity threshold 0.1
C29_SurvivorsApart ==
    dPc = "done" =>
        \A i, j \in 1..Len(dOutput) : i # j => ~ClosePair(dOutput[i], dOutput[j])

\* how many times a value is in a list
CountIn(list, value) == Cardinality({k \in 1..Len(list) : list[k] = value})

\* the highest confidence of a class in a list that holds the class
MaxConfidence(detections, class_name) ==
    CHOOSE c \in {detections[k].confidence : k \in 1..Len(detections)} :
        /\ \E k \in 1..Len(detections) :
              detections[k].class_name = class_name /\ detections[k].confidence = c
        /\ \A k \in 1..Len(detections) :
              detections[k].class_name = class_name => detections[k].confidence <= c

\* C30: deduplication never loses the best detection of a class: the output
\* is a sub-collection of the input (no detection more often than in the
\* input), and for each class present in the input the output holds a
\* detection of that class whose confidence is the maximum confidence of the
\* class in the input
C30_BestOfClassKept ==
    dPc = "done" =>
        /\ \A d \in DedupDetections : CountIn(dOutput, d) <= CountIn(dInput, d)
        /\ \A k \in 1..Len(dOutput) : CountIn(dInput, dOutput[k]) > 0
        /\ \A c \in DedupClasses :
              (\E k \in 1..Len(dInput) : dInput[k].class_name = c) =>
                  \E k \in 1..Len(dOutput) :
                      /\ dOutput[k].class_name = c
                      /\ dOutput[k].confidence = MaxConfidence(dInput, c)

\* three detections of one class: the second took the place of the weaker
\* first, the third is weaker than the second and close to it, and the
\* second alone is left
C30_Witness ==
    /\ dPc = "done"
    /\ Len(dInput) = 3
    /\ ClosePair(dInput[1], dInput[2]) /\ ClosePair(dInput[2], dInput[3])
    /\ dInput[2].confidence > dInput[1].confidence
    /\ dInput[2].confidence > dInput[3].confidence
    /\ dInput[1].bbox # dInput[3].bbox
    /\ dOutput = <<dInput[2]>>
=============================================================================
